---- MODULE Spec2Model ----
(***************************************************************************)
(* Note / folder persistence API of the note-taking application.           *)
(*                                                                         *)
(* The backend is a set of express handlers (note.controller.ts,           *)
(* folder.controller.ts) over one relational store.  Every `await prisma`  *)
(* statement of a handler is one atomic step on the store; between two     *)
(* awaits of one request the steps of other requests may run.              *)
(***************************************************************************)
EXTENDS Integers, FiniteSets, Sequences, TLC

(***************************************************************************)
(* Bounds                                                                  *)
(***************************************************************************)
MaxNotes == 2
MaxFolders == 1
MaxTime == 3
MaxLibIds == 3
MaxUsers == 2
MaxClientNotes == 1
MaxClientFolders == 1
MaxVoiceTicks == 7
MaxPendingStarts == 2

NULL == "null"
NoUser == "anon"
Users == {"u1", "u2"}
Reqs == {1, 2}

NoteIdSeq == <<"n1", "n2", "n3", "n4">>
FolderIdSeq == <<"f1", "f2", "f3", "f4">>
NoteIds == {NoteIdSeq[i] : i \in 1..MaxNotes}
FolderIds == {FolderIdSeq[i] : i \in 1..MaxFolders}

Empty == << >>

(***************************************************************************)
(* Request bodies: partial JSON objects, a function from the keys present  *)
(* to their values.                                                        *)
(***************************************************************************)
CreateNoteBodies ==
  {Empty, "title" :> "", "title" :> "a",
   ("title" :> "a") @@ ("isFavorite" :> TRUE) @@ ("userId" :> "u2")}
    \cup {("title" :> "a") @@ ("folderId" :> f) : f \in FolderIds}
UpdateNoteBodies ==
  {Empty, "title" :> "", "folderId" :> NULL} \cup {"folderId" :> f : f \in FolderIds}
FolderBodies == {Empty, "name" :> "a", "name" :> "", "name" :> "b"}
MoveBodies == {Empty} \cup {"folderId" :> f : f \in FolderIds \cup {NULL, ""}}

(***************************************************************************)
(* Validation schemas (zod).  z.object strips keys that are not declared.  *)
(***************************************************************************)
NoteSchemaKeys ==
  {"title", "content", "audioUrl", "hasAudio", "tags", "isFavorite", "folderId"}
FolderSchemaKeys == {"name", "color"}

Strip(body, keys) == [k \in (DOMAIN body) \cap keys |-> body[k]]

\* createNoteSchema.parse: title required and non-empty, defaults filled in.
createNoteSchemaOk(body) == "title" \in DOMAIN body /\ body["title"] # ""
createNoteSchemaParse(body) ==
  Strip(body, NoteSchemaKeys)
    @@ ("hasAudio" :> FALSE) @@ ("tags" :> {}) @@ ("isFavorite" :> FALSE)

\* updateNoteSchema = createNoteSchema.partial(): every key optional, the
\* defaults are not applied to an absent key.
\* mutant: the partial schema accepts any title
updateNoteSchemaOk_Any(body) == TRUE

updateNoteSchemaOk(body) == "title" \in DOMAIN body => body["title"] # ""
updateNoteSchemaParse(body) == Strip(body, NoteSchemaKeys)

createFolderSchemaOk(body) == "name" \in DOMAIN body /\ body["name"] # ""
createFolderSchemaParse(body) == Strip(body, FolderSchemaKeys)

updateFolderSchemaOk(body) == "name" \in DOMAIN body => body["name"] # ""
updateFolderSchemaParse(body) == Strip(body, FolderSchemaKeys)

(***************************************************************************)
(* State                                                                   *)
(***************************************************************************)
VARIABLES
  notes,       \* table notes: id -> row
  folders,     \* table folders: id -> row
  nextNote,    \* number of note ids generated so far
  nextFolder,  \* number of folder ids generated so far
  now,         \* storage clock
  pc,          \* per request in flight: position in its handler
  req,         \* per request in flight: op, user (req.user), id (req.params), body
  unlinked,    \* per request in flight: ids changed by deleteFolder's updateMany
  resp,        \* the response sent by the latest step, with its request
  removed,     \* history: note ids whose permanent delete succeeded
  libNotes,    \* src/lib/api.ts, table notes of the pool: id -> row
  libFolders,  \* src/lib/api.ts, table folders of the pool: id -> row
  libNow,      \* src/lib/api.ts, Date.now()
  libPc,       \* src/lib/api.ts, the folder a deleteFolder call is working on
  libCall,     \* src/lib/api.ts, the call served by the latest step
  users,       \* table users: id -> row
  nextUser,    \* number of user ids generated so far
  jwtSecret,   \* process.env.JWT_SECRET is defined
  authPc,      \* per auth request in flight: position in its handler
  authReq,     \* per auth request in flight: op and body
  authResp,    \* the response sent by the latest step of an auth handler
  user,        \* AuthProvider: the user state
  localStorage,\* AuthProvider: the browser's localStorage
  authCall,    \* AuthProvider: the call made by the latest step
  mockNotes,   \* src/lib/api.ts in the browser: the array mockNotes
  mockFolders, \* src/lib/api.ts in the browser: the array mockFolders
  homeNotes,   \* Home: the state notes, the mirror of the notes
  homeFolders, \* Home: the state folders
  dateNow,     \* the clock of the browser, Date.now()
  online,      \* the service can be reached
  cliPc,       \* the Home handler that waits for the service, with its locals
  cliCall,     \* the call of src/lib/api.ts made by the latest step
  voiceNow,    \* Date.now() as useVoiceCommands reads it
  lastVoiceCommandTime, \* window.lastVoiceCommandTime
  scheduled,   \* the command handlers whose timer of 100 ms is pending
  dispatchLog, \* history: the instants of the result events that dispatched
  voiceEvent,  \* the latest result event and the command it dispatched
  isListening, \* useVoiceCommands: the prop isListening
  listening,   \* useVoiceCommands: the state listening
  recognition, \* the SpeechRecognition object: idle, active or stopping
  restartTimer,\* a restart timer set by handleEnd is pending
  component,   \* the component whose recorder is modelled
  isRecording, \* recorder: the state isRecording
  isPaused,    \* recorder: the state isPaused
  mediaRecorder, \* the state of mediaRecorderRef.current, "null" without one
  pendingStarts, \* calls of getUserMedia that have not settled
  micError,    \* VoiceRecorder: the state error is set
  recCall      \* the recorder handler run by the latest step

apiVars == <<notes, folders, nextNote, nextFolder, now,
             pc, req, unlinked, resp, removed>>

libVars == <<libNotes, libFolders, libNow, libPc, libCall>>

usersVars == <<users, nextUser, jwtSecret, authPc, authReq, authResp>>

sessionVars == <<user, localStorage, authCall>>

clientVars == <<mockNotes, mockFolders, homeNotes, homeFolders,
                dateNow, online, cliPc, cliCall>>

voiceVars == <<voiceNow, lastVoiceCommandTime, scheduled, dispatchLog, voiceEvent,
               isListening, listening, recognition, restartTimer>>

recVars == <<component, isRecording, isPaused, mediaRecorder, pendingStarts,
             micError, recCall>>

vars == <<apiVars, libVars, usersVars, sessionVars, clientVars, voiceVars, recVars>>

store == <<notes, folders, nextNote, nextFolder, now, removed>>

Request(op, u, id, body) == [op |-> op, user |-> u, id |-> id, body |-> body]
NoReq == Request("none", NoUser, NULL, Empty)

\* before: the addressed row as the responding step found it
\* list: the rows of a list response, in the order they are returned
Response(R, code, ids, before, unl) ==
  [req |-> R, status |-> code, result |-> ids, before |-> before, unlinked |-> unl,
   list |-> << >>]
NoResp == Response(NoReq, 0, {}, {}, {})

InitApi ==
  /\ notes = Empty
  /\ folders = Empty
  /\ nextNote = 0
  /\ nextFolder = 0
  /\ now = 0
  /\ pc = [r \in Reqs |-> "idle"]
  /\ req = [r \in Reqs |-> NoReq]
  /\ unlinked = [r \in Reqs |-> {}]
  /\ resp = NoResp
  /\ removed = {}

InitLib ==
  /\ libNotes = Empty
  /\ libFolders = Empty
  /\ libNow = 0
  /\ libPc = NULL
  /\ libCall = [op |-> "none", arg |-> Empty]

CliCall(op, id, status, path) ==
  [op |-> op, id |-> id, status |-> status, path |-> path]

NoNote == [id |-> NULL, title |-> "", folderId |-> NULL, isDeleted |-> "false"]

CliPc(at, note, libId, fetched) ==
  [at |-> at, note |-> note, libId |-> libId, fetched |-> fetched]

CliIdle == CliPc("idle", NoNote, NULL, << >>)

InitClient ==
  /\ mockNotes = << >>
  /\ mockFolders = << >>
  /\ homeNotes = << >>
  /\ homeFolders = << >>
  /\ dateNow = 0
  /\ online = TRUE
  /\ cliPc = CliIdle
  /\ cliCall = CliCall("none", NULL, "ok", "none")

\* Date.now() when the page is loaded
VoiceEpoch == 2000

VoiceEvent(at, transcript, command) ==
  [at |-> at, transcript |-> transcript, command |-> command]

InitVoice ==
  /\ voiceNow = VoiceEpoch
  /\ lastVoiceCommandTime = 0
  /\ scheduled = << >>
  /\ dispatchLog = << >>
  /\ voiceEvent = VoiceEvent(0, << >>, NULL)
  /\ isListening = FALSE
  /\ listening = FALSE
  /\ recognition = "idle"
  /\ restartTimer = FALSE

RecCall(op, wasPaused) == [op |-> op, wasPaused |-> wasPaused]

RecState ==
  /\ isRecording = FALSE
  /\ isPaused = FALSE
  /\ mediaRecorder = "null"
  /\ pendingStarts = 0
  /\ micError = FALSE
  /\ recCall = RecCall("none", FALSE)

InitRec == component = "VoiceRecorder" /\ RecState

InitUsers ==
  /\ users = Empty
  /\ nextUser = 0
  /\ jwtSecret = TRUE
  /\ authPc = [r \in Reqs |-> "idle"]
  /\ authReq = [r \in Reqs |-> [op |-> "none", body |-> Empty]]
  /\ authResp = [req |-> [op |-> "none", body |-> Empty], status |-> 0,
                 message |-> "", user |-> [id |-> NULL, name |-> << >>, email |-> NULL],
                 token |-> << >>]

InitSession ==
  /\ user = [id |-> NULL, name |-> << >>, email |-> NULL]
  /\ localStorage = Empty
  /\ authCall = [op |-> "none", email |-> NULL, password |-> << >>, service |-> "none"]

Init ==
  InitApi /\ InitLib /\ InitUsers /\ InitSession /\ InitClient /\ InitVoice /\ InitRec

(***************************************************************************)
(* Storage layer.  The column defaults and the foreign key of the notes    *)
(* table come from the persisted state layout: notes(..., updated_at,      *)
(* folder_id nullable FK->folders, is_deleted default false, user_id).     *)
(***************************************************************************)
Get(data, k, dflt) == IF k \in DOMAIN data THEN data[k] ELSE dflt

\* mutant: the column is a plain string, without a foreign key
FkOk_None(fid) == TRUE

\* notes.folder_id is a nullable foreign key to folders.id
FkOk(fid) == fid = NULL \/ fid \in DOMAIN folders

\* mutant: a write leaves updated_at as it was
TouchUpdatedAt_Keep(row, t) == row

\* updated_at is set by the storage layer on every write of the row
TouchUpdatedAt(row, t) == [row EXCEPT !.updatedAt = t]

\* prisma.note.create({ data }): absent optional columns are null,
\* is_deleted takes its default
NoteCreateRow(data, t) ==
  [ userId     |-> data["userId"],
    title      |-> data["title"],
    content    |-> Get(data, "content", NULL),
    audioUrl   |-> Get(data, "audioUrl", NULL),
    hasAudio   |-> data["hasAudio"],
    tags       |-> data["tags"],
    isFavorite |-> data["isFavorite"],
    folderId   |-> Get(data, "folderId", NULL),
    isDeleted  |-> Get(data, "isDeleted", FALSE),
    updatedAt  |-> t ]

\* prisma.note.update({ where: { id }, data }): only the keys of data change
NoteUpdateRow(row, data, t) ==
  TouchUpdatedAt([k \in DOMAIN row |-> IF k \in DOMAIN data THEN data[k] ELSE row[k]], t)

\* prisma.folder.create({ data }); created_at holds the creation instant,
\* represented by the position of the folder in creation order
FolderCreateRow(data, t) ==
  [ userId    |-> data["userId"],
    name      |-> data["name"],
    color     |-> Get(data, "color", NULL),
    createdAt |-> t ]

\* prisma.folder.update({ where: { id }, data })
FolderUpdateRow(row, data) ==
  [k \in DOMAIN row |-> IF k \in DOMAIN data THEN data[k] ELSE row[k]]

\* mutant: the row is looked up by id alone
NoteFindFirst_AnyOwner(id, u) ==
  IF id \in DOMAIN notes THEN {notes[id]} ELSE {}

\* prisma.note.findFirst / findUnique({ where: { id, userId } })
NoteFindFirst(id, u) ==
  IF id \in DOMAIN notes /\ notes[id].userId = u THEN {notes[id]} ELSE {}

\* prisma.folder.findFirst({ where: { id, userId } })
FolderFindFirst(id, u) ==
  IF id \in DOMAIN folders /\ folders[id].userId = u THEN {folders[id]} ELSE {}

\* prisma.note.findMany({ where: { userId, isDeleted: includeDeleted ? undefined : false } })
NoteFindMany(u, includeDeleted) ==
  {id \in DOMAIN notes :
     notes[id].userId = u /\ (includeDeleted \/ notes[id].isDeleted = FALSE)}

\* the orders in which orderBy: { updatedAt: "desc" } may return the rows ids
Orderings(ids) ==
  {s \in [1..Cardinality(ids) -> ids] : \A i, j \in DOMAIN s : i # j => s[i] # s[j]}
\* mutant: the rows come back in any order
NoteOrderBy_Unordered(ids) == Orderings(ids)

NoteOrderBy(ids) ==
  {s \in Orderings(ids) :
     \A i \in 1..(Len(s) - 1) : notes[s[i]].updatedAt >= notes[s[i + 1]].updatedAt}

\* prisma.folder.findMany({ where: { userId } })
FolderFindMany(u) == {id \in DOMAIN folders : folders[id].userId = u}

\* rows of prisma.note.updateMany({ where: { folderId: id, userId } })
NoteUpdateManyWhere(fid, u) ==
  {id \in DOMAIN notes : notes[id].folderId = fid /\ notes[id].userId = u}

Insert(table, id, row) == (id :> row) @@ table
Delete(table, id) == [k \in (DOMAIN table) \ {id} |-> table[k]]
RowOf(table, id) == IF id \in DOMAIN table THEN {table[id]} ELSE {}

(***************************************************************************)
(* Request bookkeeping                                                     *)
(***************************************************************************)
\* a response is delivered to its client before the server takes its next step
At(r, label) == resp = NoResp /\ pc[r] = label

Deliver ==
  /\ resp # NoResp
  /\ resp' = NoResp
  /\ UNCHANGED <<store, pc, req, unlinked>>

\* a new request is taken by the first free handler slot
Begin(r) ==
  /\ At(r, "idle")
  /\ \A q \in Reqs : pc[q] = "idle" => ~(q < r)

\* the handler awaits its next statement
Continue(r, R, label) ==
  /\ pc' = [pc EXCEPT ![r] = label]
  /\ req' = [req EXCEPT ![r] = R]
  /\ resp' = NoResp

\* res.status(code).json(...): the handler ends
Respond(r, R, code, ids, before) ==
  /\ resp' = Response(R, code, ids, before, unlinked[r])
  /\ pc' = [pc EXCEPT ![r] = "idle"]
  /\ req' = [req EXCEPT ![r] = NoReq]
  /\ unlinked' = [unlinked EXCEPT ![r] = {}]

\* res.status(code).json({ notes: [...] })
RespondList(r, R, code, list) ==
  /\ resp' = [Response(R, code, {list[i] : i \in DOMAIN list}, {}, unlinked[r])
               EXCEPT !.list = list]
  /\ pc' = [pc EXCEPT ![r] = "idle"]
  /\ req' = [req EXCEPT ![r] = NoReq]
  /\ unlinked' = [unlinked EXCEPT ![r] = {}]

\* a stored timestamp is taken for every write; the clock is bounded
Tick == now < MaxTime /\ now' = now + 1

(***************************************************************************)
(* note.controller.ts                                                      *)
(***************************************************************************)
getNotes(r, u, includeDeleted) ==
  LET R == Request("getNotes", u, NULL, "includeDeleted" :> includeDeleted)
  IN /\ Begin(r)
     /\ IF u = NoUser
          THEN Respond(r, R, 401, {}, {})
          ELSE \E list \in NoteOrderBy(NoteFindMany(u, includeDeleted)) :
                 RespondList(r, R, 200, list)
     /\ UNCHANGED store

getNoteById(r, u, id) ==
  LET R == Request("getNoteById", u, id, Empty)
  IN /\ Begin(r)
     /\ IF u = NoUser
          THEN Respond(r, R, 401, {}, {})
          ELSE IF NoteFindFirst(id, u) = {}
            THEN Respond(r, R, 404, {}, RowOf(notes, id))
            ELSE Respond(r, R, 200, {id}, RowOf(notes, id))
     /\ UNCHANGED store

\* mutant: the owner is taken from the body when the body names one
createNote_TrustBody(r, u, body) ==
  LET R == Request("createNote", u, NULL, body)
      data == Strip(body, {"userId"}) @@ ("userId" :> u) @@ createNoteSchemaParse(body)
      id == NoteIdSeq[nextNote + 1]
  IN /\ Begin(r)
     /\ IF u = NoUser
          THEN Respond(r, R, 401, {}, {}) /\ UNCHANGED store
          ELSE IF ~createNoteSchemaOk(body)
            THEN Respond(r, R, 400, {}, {}) /\ UNCHANGED store
            ELSE IF ~FkOk(Get(data, "folderId", NULL))
              THEN Respond(r, R, 500, {}, {}) /\ UNCHANGED store
              ELSE /\ nextNote < MaxNotes
                   /\ Tick
                   /\ notes' = Insert(notes, id, NoteCreateRow(data, now'))
                   /\ nextNote' = nextNote + 1
                   /\ Respond(r, R, 201, {id}, {})
                   /\ UNCHANGED <<folders, nextFolder, removed>>

createNote(r, u, body) ==
  LET R == Request("createNote", u, NULL, body)
      data == ("userId" :> u) @@ createNoteSchemaParse(body)
      id == NoteIdSeq[nextNote + 1]
  IN /\ Begin(r)
     /\ IF u = NoUser
          THEN Respond(r, R, 401, {}, {}) /\ UNCHANGED store
          ELSE IF ~createNoteSchemaOk(body)
            THEN Respond(r, R, 400, {}, {}) /\ UNCHANGED store
            ELSE IF ~FkOk(Get(data, "folderId", NULL))
              THEN Respond(r, R, 500, {}, {}) /\ UNCHANGED store
              ELSE /\ nextNote < MaxNotes
                   /\ Tick
                   /\ notes' = Insert(notes, id, NoteCreateRow(data, now'))
                   /\ nextNote' = nextNote + 1
                   /\ Respond(r, R, 201, {id}, {})
                   /\ UNCHANGED <<folders, nextFolder, removed>>

\* findFirst({ where: { id, userId } }) of the handlers that address one note
NoteCheck(r, R, next) ==
  /\ Begin(r)
  /\ IF R.user = NoUser
       THEN Respond(r, R, 401, {}, {})
       ELSE IF NoteFindFirst(R.id, R.user) = {}
         THEN Respond(r, R, 404, {}, RowOf(notes, R.id))
         ELSE Continue(r, R, next) /\ UNCHANGED unlinked
  /\ UNCHANGED store

\* prisma.note.update({ where: { id }, data }) followed by the response;
\* the statement throws when the row is gone or the foreign key is violated
NoteWrite(r, label, data) ==
  /\ At(r, label)
  /\ LET id == req[r].id
     IN IF id \notin DOMAIN notes \/ ~FkOk(Get(data, "folderId", NULL))
          THEN /\ Respond(r, req[r], 500, {}, RowOf(notes, id))
               /\ UNCHANGED store
          ELSE /\ Tick
               /\ notes' = [notes EXCEPT ![id] = NoteUpdateRow(notes[id], data, now')]
               /\ Respond(r, req[r], 200, {id}, RowOf(notes, id))
               /\ UNCHANGED <<folders, nextNote, nextFolder, removed>>

updateNoteFind(r, u, id, body) ==
  NoteCheck(r, Request("updateNote", u, id, body), "updateNote_update")

updateNoteUpdate(r) ==
  IF updateNoteSchemaOk(req[r].body)
    THEN NoteWrite(r, "updateNote_update", updateNoteSchemaParse(req[r].body))
    ELSE /\ At(r, "updateNote_update")
         /\ Respond(r, req[r], 400, {}, RowOf(notes, req[r].id))
         /\ UNCHANGED store

moveNoteToTrashFind(r, u, id) ==
  NoteCheck(r, Request("moveNoteToTrash", u, id, Empty), "trash_update")

\* mutant: trashing a note also takes it out of its folder
moveNoteToTrashUpdate_Unfile(r) ==
  NoteWrite(r, "trash_update", ("isDeleted" :> TRUE) @@ ("folderId" :> NULL))

\* mutant: the flag is flipped instead of set
moveNoteToTrashUpdate_Toggle(r) ==
  NoteWrite(r, "trash_update",
    "isDeleted" :> (req[r].id \in DOMAIN notes /\ ~notes[req[r].id].isDeleted))

moveNoteToTrashUpdate(r) == NoteWrite(r, "trash_update", "isDeleted" :> TRUE)

restoreNoteFromTrashFind(r, u, id) ==
  NoteCheck(r, Request("restoreNoteFromTrash", u, id, Empty), "restore_update")

restoreNoteFromTrashUpdate(r) == NoteWrite(r, "restore_update", "isDeleted" :> FALSE)

deleteNotePermanentlyFind(r, u, id) ==
  NoteCheck(r, Request("deleteNotePermanently", u, id, Empty), "delete_delete")

\* mutant: the permanent delete only marks the row
deleteNotePermanentlyDelete_Soft(r) ==
  /\ At(r, "delete_delete")
  /\ LET id == req[r].id
     IN IF id \notin DOMAIN notes
          THEN /\ Respond(r, req[r], 500, {}, {})
               /\ UNCHANGED store
          ELSE /\ notes' = [notes EXCEPT ![id].isDeleted = TRUE]
               /\ removed' = removed \cup {id}
               /\ Respond(r, req[r], 200, {}, RowOf(notes, id))
               /\ UNCHANGED <<folders, nextNote, nextFolder, now>>

\* prisma.note.delete({ where: { id } }); throws when the row is gone
deleteNotePermanentlyDelete(r) ==
  /\ At(r, "delete_delete")
  /\ LET id == req[r].id
     IN IF id \notin DOMAIN notes
          THEN /\ Respond(r, req[r], 500, {}, {})
               /\ UNCHANGED store
          ELSE /\ notes' = Delete(notes, id)
               /\ removed' = removed \cup {id}
               /\ Respond(r, req[r], 200, {}, RowOf(notes, id))
               /\ UNCHANGED <<folders, nextNote, nextFolder, now>>

moveNoteToFolderFind(r, u, id, body) ==
  NoteCheck(r, Request("moveNoteToFolder", u, id, body), "move_folder")

\* mutant: the target folder is not looked up
moveNoteToFolderFolder_NoCheck(r) ==
  /\ At(r, "move_folder")
  /\ Continue(r, req[r], "move_update") /\ UNCHANGED unlinked
  /\ UNCHANGED store

\* if (folderId): null, undefined and the empty string are falsy
Truthy(v) == v # NULL /\ v # ""

\* if (folderId) { folder = findFirst({ where: { id: folderId, userId } }) }
moveNoteToFolderFolder(r) ==
  /\ At(r, "move_folder")
  /\ LET folderId == Get(req[r].body, "folderId", NULL)
     IN IF Truthy(folderId) /\ FolderFindFirst(folderId, req[r].user) = {}
          THEN Respond(r, req[r], 404, {}, RowOf(notes, req[r].id))
          ELSE Continue(r, req[r], "move_update") /\ UNCHANGED unlinked
  /\ UNCHANGED store

\* data: { folderId }; an undefined folderId leaves the column alone
moveNoteToFolderUpdate(r) ==
  NoteWrite(r, "move_update", Strip(req[r].body, {"folderId"}))

(***************************************************************************)
(* folder.controller.ts                                                    *)
(***************************************************************************)
getFolders(r, u) ==
  LET R == Request("getFolders", u, NULL, Empty)
  IN /\ Begin(r)
     /\ IF u = NoUser
          THEN Respond(r, R, 401, {}, {})
          ELSE Respond(r, R, 200, FolderFindMany(u), {})
     /\ UNCHANGED store

createFolder(r, u, body) ==
  LET R == Request("createFolder", u, NULL, body)
      data == ("userId" :> u) @@ createFolderSchemaParse(body)
      id == FolderIdSeq[nextFolder + 1]
  IN /\ Begin(r)
     /\ IF u = NoUser
          THEN Respond(r, R, 401, {}, {}) /\ UNCHANGED store
          ELSE IF ~createFolderSchemaOk(body)
            THEN Respond(r, R, 400, {}, {}) /\ UNCHANGED store
            ELSE /\ nextFolder < MaxFolders
                 /\ nextFolder' = nextFolder + 1
                 /\ folders' = Insert(folders, id, FolderCreateRow(data, nextFolder'))
                 /\ Respond(r, R, 201, {id}, {})
                 /\ UNCHANGED <<notes, nextNote, now, removed>>

\* findFirst({ where: { id, userId } }) of the handlers that address one folder
FolderCheck(r, R, next) ==
  /\ Begin(r)
  /\ IF R.user = NoUser
       THEN Respond(r, R, 401, {}, {})
       ELSE IF FolderFindFirst(R.id, R.user) = {}
         THEN Respond(r, R, 404, {}, RowOf(folders, R.id))
         ELSE Continue(r, R, next) /\ UNCHANGED unlinked
  /\ UNCHANGED store

updateFolderFind(r, u, id, body) ==
  FolderCheck(r, Request("updateFolder", u, id, body), "updateFolder_update")

updateFolderUpdate(r) ==
  /\ At(r, "updateFolder_update")
  /\ LET id == req[r].id
     IN IF ~updateFolderSchemaOk(req[r].body)
          THEN /\ Respond(r, req[r], 400, {}, RowOf(folders, id))
               /\ UNCHANGED store
          ELSE IF id \notin DOMAIN folders
            THEN /\ Respond(r, req[r], 500, {}, {})
                 /\ UNCHANGED store
            ELSE /\ folders' = [folders EXCEPT ![id] =
                       FolderUpdateRow(folders[id], updateFolderSchemaParse(req[r].body))]
                 /\ Respond(r, req[r], 200, {id}, RowOf(folders, id))
                 /\ UNCHANGED <<notes, nextNote, nextFolder, now, removed>>

deleteFolderFind(r, u, id) ==
  FolderCheck(r, Request("deleteFolder", u, id, Empty), "deleteFolder_updateMany")

\* mutant: the notes of the folder are deleted with it
deleteFolderUpdateMany_DeleteMany(r) ==
  /\ At(r, "deleteFolder_updateMany")
  /\ LET rows == NoteUpdateManyWhere(req[r].id, req[r].user)
     IN /\ notes' = [n \in (DOMAIN notes) \ rows |-> notes[n]]
        /\ unlinked' = [unlinked EXCEPT ![r] = rows]
  /\ Continue(r, req[r], "deleteFolder_delete")
  /\ UNCHANGED <<folders, nextNote, nextFolder, now, removed>>

\* prisma.note.updateMany({ where: { folderId: id, userId }, data: { folderId: null } })
deleteFolderUpdateMany(r) ==
  /\ At(r, "deleteFolder_updateMany")
  /\ LET rows == NoteUpdateManyWhere(req[r].id, req[r].user)
     IN /\ IF rows = {}
             THEN UNCHANGED <<notes, now>>
             ELSE /\ Tick
                  /\ notes' = [n \in DOMAIN notes |->
                       IF n \in rows
                         THEN NoteUpdateRow(notes[n], "folderId" :> NULL, now')
                         ELSE notes[n]]
        /\ unlinked' = [unlinked EXCEPT ![r] = rows]
  /\ Continue(r, req[r], "deleteFolder_delete")
  /\ UNCHANGED <<folders, nextNote, nextFolder, removed>>

\* The rows that still reference the folder when it is deleted are handled
\* by the referential action of the foreign key, ON DELETE SET NULL or
\* RESTRICT / NO ACTION: the outcomes of prisma.folder.delete on the store.
FkDeleteFolder(fid) ==
  LET refs == {n \in DOMAIN notes : notes[n].folderId = fid}
      setNull == [n \in DOMAIN notes |->
                   IF n \in refs THEN [notes[n] EXCEPT !.folderId = NULL] ELSE notes[n]]
  IN IF refs = {}
       THEN {[ok |-> TRUE, notes |-> notes]}
       ELSE {[ok |-> TRUE, notes |-> setNull], [ok |-> FALSE, notes |-> notes]}

\* prisma.folder.delete({ where: { id } })
deleteFolderDelete(r) ==
  /\ At(r, "deleteFolder_delete")
  /\ LET id == req[r].id
     IN IF id \notin DOMAIN folders
          THEN /\ Respond(r, req[r], 500, {}, {})
               /\ UNCHANGED store
          ELSE \E out \in FkDeleteFolder(id) :
                 IF out.ok
                   THEN /\ notes' = out.notes
                        /\ folders' = Delete(folders, id)
                        /\ Respond(r, req[r], 200, {}, RowOf(folders, id))
                        /\ UNCHANGED <<nextNote, nextFolder, now, removed>>
                   ELSE /\ Respond(r, req[r], 500, {}, RowOf(folders, id))
                        /\ UNCHANGED store

(***************************************************************************)
(* src/lib/api.ts on the server (typeof window === "undefined"): the same  *)
(* operations as SQL statements on the pool.  The tables of                *)
(* initializeDatabase have no user column and no foreign key.              *)
(***************************************************************************)
\* const id = Date.now().toString(): the clock readings, as strings
LibIdSeq == <<"1001", "1002", "1003", "1004", "1005">>
LibIds == {LibIdSeq[i] : i \in 1..MaxLibIds}

\* the call being served: its name and its arguments
LibCall(op, arg) == [op |-> op, arg |-> arg]

\* time passes between two calls
LibTick ==
  /\ libNow < MaxLibIds
  /\ libNow' = libNow + 1

libTimePasses ==
  /\ libPc = NULL
  /\ LibTick
  /\ libCall' = LibCall("none", Empty)
  /\ UNCHANGED <<libNotes, libFolders, libPc>>

\* Date.now() of a create call: a fresh reading of the clock
LibNewId == LibTick

\* a parameter that is undefined is sent as NULL
LibParam(obj, k) == Get(obj, k, NULL)

\* INSERT INTO folders (id, name, color)
libCreateFolder(name) ==
  /\ LibNewId
  /\ libFolders' = Insert(libFolders, LibIdSeq[libNow'], [name |-> name, color |-> "red"])
  /\ libCall' = LibCall("createFolder", ("name" :> name) @@ ("color" :> "red"))
  /\ UNCHANGED <<libNotes, libPc>>

\* UPDATE folders SET name = $1, color = $2 WHERE id = $3
libUpdateFolder(folder) ==
  /\ libPc = NULL
  /\ libFolders' = [f \in DOMAIN libFolders |->
       IF f = folder["id"]
         THEN [name |-> LibParam(folder, "name"), color |-> LibParam(folder, "color")]
         ELSE libFolders[f]]
  /\ libCall' = LibCall("updateFolder", folder)
  /\ UNCHANGED <<libNotes, libNow, libPc>>

\* INSERT INTO notes (...): folder_id = note.folder_id || null,
\* is_deleted = note.is_deleted || false, updated_at DEFAULT CURRENT_TIMESTAMP
libCreateNote(title, folder_id, is_deleted) ==
  /\ LibNewId
  /\ libNotes' = Insert(libNotes, LibIdSeq[libNow'],
        [title |-> title, folder_id |-> folder_id, is_deleted |-> is_deleted,
         updated_at |-> libNow'])
  /\ libCall' = LibCall("createNote",
        ("title" :> title) @@ ("folder_id" :> folder_id) @@ ("is_deleted" :> is_deleted))
  /\ UNCHANGED <<libFolders, libPc>>

\* UPDATE notes SET title = $1, ..., updated_at = CURRENT_TIMESTAMP,
\* folder_id = $7, is_deleted = $8 WHERE id = $9
libUpdateNote(note) ==
  /\ libPc = NULL
  /\ note["id"] \in DOMAIN libNotes
  /\ libNotes' = [libNotes EXCEPT ![note["id"]] =
        [title |-> note["title"], folder_id |-> note["folder_id"],
         is_deleted |-> note["is_deleted"], updated_at |-> libNow]]
  /\ libCall' = LibCall("updateNote", note)
  /\ UNCHANGED <<libFolders, libNow, libPc>>

\* deleteFolder, first statement: DELETE FROM folders WHERE id = $1
libDeleteFolderDelete(id) ==
  /\ libPc = NULL
  /\ libFolders' = Delete(libFolders, id)
  /\ libPc' = id
  /\ libCall' = LibCall("deleteFolder", "id" :> id)
  /\ UNCHANGED <<libNotes, libNow>>

\* deleteFolder, second statement:
\* UPDATE notes SET folder_id = NULL WHERE folder_id = $1
libDeleteFolderUpdate ==
  /\ libPc # NULL
  /\ libNotes' = [n \in DOMAIN libNotes |->
       IF libNotes[n].folder_id = libPc
         THEN [libNotes[n] EXCEPT !.folder_id = NULL]
         ELSE libNotes[n]]
  /\ libPc' = NULL
  /\ UNCHANGED <<libFolders, libNow, libCall>>

\* UPDATE notes SET folder_id = $1 WHERE id = $2
libMoveNoteToFolder(noteId, folderId) ==
  /\ noteId \in DOMAIN libNotes
  /\ libNotes' = [libNotes EXCEPT ![noteId].folder_id = folderId]
  /\ libCall' = LibCall("moveNoteToFolder", ("id" :> noteId) @@ ("folderId" :> folderId))
  /\ UNCHANGED <<libFolders, libNow, libPc>>

\* UPDATE notes SET is_deleted = TRUE WHERE id = $1
libMoveNoteToTrash(id) ==
  /\ id \in DOMAIN libNotes
  /\ libNotes' = [libNotes EXCEPT ![id].is_deleted = TRUE]
  /\ libCall' = LibCall("moveNoteToTrash", "id" :> id)
  /\ UNCHANGED <<libFolders, libNow, libPc>>

\* UPDATE notes SET is_deleted = FALSE WHERE id = $1
libRestoreNoteFromTrash(id) ==
  /\ id \in DOMAIN libNotes
  /\ libNotes' = [libNotes EXCEPT ![id].is_deleted = FALSE]
  /\ libCall' = LibCall("restoreNoteFromTrash", "id" :> id)
  /\ UNCHANGED <<libFolders, libNow, libPc>>

\* DELETE FROM notes WHERE id = $1
libDeleteNotePermanently(id) ==
  /\ id \in DOMAIN libNotes
  /\ libNotes' = Delete(libNotes, id)
  /\ libCall' = LibCall("deleteNotePermanently", "id" :> id)
  /\ UNCHANGED <<libFolders, libNow, libPc>>

\* a Folder object as a caller passes it: color is optional
LibFolderArgs ==
  {("id" :> f) @@ ("name" :> "b") : f \in DOMAIN libFolders}
    \cup {("id" :> f) @@ ("name" :> "b") @@ ("color" :> "blue") : f \in DOMAIN libFolders}

\* a Note object as a caller passes it
LibNoteArgs ==
  {("id" :> n) @@ ("title" :> "b") @@ ("folder_id" :> libNotes[n].folder_id)
     @@ ("is_deleted" :> libNotes[n].is_deleted) : n \in DOMAIN libNotes}

NextLib ==
  /\ \/ \E name \in {"a"} : libCreateFolder(name)
     \/ \E f \in DOMAIN libFolders \cup {NULL}, d \in BOOLEAN : libCreateNote("a", f, d)
     \/ \E id \in DOMAIN libFolders : libDeleteFolderDelete(id)
     \/ libDeleteFolderUpdate
     \/ \E n \in LibIds, f \in DOMAIN libFolders \cup {NULL} : libMoveNoteToFolder(n, f)
     \/ \E n \in LibIds : libMoveNoteToTrash(n)
     \/ \E n \in LibIds : libRestoreNoteFromTrash(n)
     \/ \E n \in LibIds : libDeleteNotePermanently(n)
     \/ \E folder \in LibFolderArgs : libUpdateFolder(folder)
     \/ \E note \in LibNoteArgs : libUpdateNote(note)
     \/ libTimePasses
  /\ UNCHANGED <<apiVars, usersVars, sessionVars, clientVars, voiceVars, recVars>>

SpecLib == Init /\ [][NextLib]_vars

(***************************************************************************)
(* Specification                                                           *)
(***************************************************************************)
\* Requests of the callers C handled by the slots S.
Reads(S, C) ==
  \/ \E r \in S, u \in C, b \in BOOLEAN : getNotes(r, u, b)
  \/ \E r \in S, u \in C, id \in NoteIds : getNoteById(r, u, id)
  \/ \E r \in S, u \in C : getFolders(r, u)

Writes(S, C, createBodies, moveBodies) ==
  \/ \E r \in S, u \in C, body \in createBodies : createNote(r, u, body)
  \/ \E r \in S, u \in C, id \in NoteIds, body \in UpdateNoteBodies :
       updateNoteFind(r, u, id, body)
  \/ \E r \in S : updateNoteUpdate(r)
  \/ \E r \in S, u \in C, id \in NoteIds : moveNoteToTrashFind(r, u, id)
  \/ \E r \in S : moveNoteToTrashUpdate(r)
  \/ \E r \in S, u \in C, id \in NoteIds : restoreNoteFromTrashFind(r, u, id)
  \/ \E r \in S : restoreNoteFromTrashUpdate(r)
  \/ \E r \in S, u \in C, id \in NoteIds : deleteNotePermanentlyFind(r, u, id)
  \/ \E r \in S : deleteNotePermanentlyDelete(r)
  \/ \E r \in S, u \in C, id \in NoteIds, body \in moveBodies :
       moveNoteToFolderFind(r, u, id, body)
  \/ \E r \in S : moveNoteToFolderFolder(r)
  \/ \E r \in S : moveNoteToFolderUpdate(r)
  \/ \E r \in S, u \in C, body \in FolderBodies : createFolder(r, u, body)
  \/ \E r \in S, u \in C, id \in FolderIds, body \in FolderBodies :
       updateFolderFind(r, u, id, body)
  \/ \E r \in S : updateFolderUpdate(r)
  \/ \E r \in S, u \in C, id \in FolderIds : deleteFolderFind(r, u, id)
  \/ \E r \in S : deleteFolderUpdateMany(r)
  \/ \E r \in S : deleteFolderDelete(r)

Callers == Users \cup {NoUser}

\* the bodies a well-behaved client sends: title and folder id of a folder
CoreCreateNoteBodies ==
  {b \in CreateNoteBodies : DOMAIN b \subseteq {"title", "folderId"}}
CoreMoveBodies == {b \in MoveBodies : Get(b, "folderId", NULL) # ""}

\* Requests of two users, handled one after the other.
Next ==
  (Reads({1}, Users) \/ Writes({1}, Users, CoreCreateNoteBodies, CoreMoveBodies)
     \/ Deliver)
    /\ UNCHANGED <<libVars, usersVars, sessionVars, clientVars, voiceVars, recVars>>

Spec == Init /\ [][Next]_vars

\* Requests of one user and of callers for whom the authentication gate
\* resolved no identity (req.user is undefined), handled one after the other,
\* with every body: undeclared keys, flags that differ from their default,
\* the empty folder id.
NextAuth ==
  (\/ Reads({1}, {"u1", NoUser})
   \/ Writes({1}, {"u1", NoUser}, CreateNoteBodies, MoveBodies)
   \/ Deliver)
    /\ UNCHANGED <<libVars, usersVars, sessionVars, clientVars, voiceVars, recVars>>

SpecAuth == Init /\ [][NextAuth]_vars

\* Mutating requests of one user, two of them in flight at a time: the steps
\* of the two handlers interleave at their awaits.
NextConc ==
  (Writes(Reqs, {"u1"}, CoreCreateNoteBodies, CoreMoveBodies) \/ Deliver)
    /\ UNCHANGED <<libVars, usersVars, sessionVars, clientVars, voiceVars, recVars>>

SpecConc == Init /\ [][NextConc]_vars

(***************************************************************************)
(* Accounts: backend/src/controllers/auth.controller.ts                    *)
(***************************************************************************)

\* Strings whose length the schemas test are sequences of characters.
Names == {<<"A", "l">>, <<"A">>}

Passwords == {<<"p", "a", "s", "s", "w", "o", "r", "d">>,
              <<"h", "u", "n", "t", "e", "r", "2", "2">>,
              <<"p", "w">>, << >>}

Emails == {"demo@example.com", "a@x.io"}

\* z.string().email() on the modelled literals: "bad" and "" have no "@".
IsEmail(e) == e \in Emails

UserIdSeq == <<"p1", "p2", "p3", "p4">>

RegisterBodies ==
  {[name |-> n, email |-> e, password |-> p] :
     n \in Names, e \in Emails \cup {"bad"},
     p \in {<<"p", "a", "s", "s", "w", "o", "r", "d">>, <<"p", "w">>}}

LoginBodies ==
  {[email |-> e, password |-> p] : e \in Emails \cup {"bad"}, p \in Passwords}

\* NULL stands for a body without the key email.
ResetBodies == {[email |-> e] : e \in Emails \cup {"bad", "", NULL}}

registerSchemaOk(b) ==
  Len(b.name) >= 2 /\ IsEmail(b.email) /\ Len(b.password) >= 8

loginSchemaOk(b) == IsEmail(b.email) /\ Len(b.password) >= 1

\* A response without a user, and one without a token.
NoOne == [id |-> NULL, name |-> << >>, email |-> NULL]

NoToken == << >>

AuthRequest(op, body) == [op |-> op, body |-> body]

NoAuthReq == AuthRequest("none", Empty)

AuthResponse(R, code, message, u, token) ==
  [req |-> R, status |-> code, message |-> message, user |-> u, token |-> token]

NoAuthResp == AuthResponse(NoAuthReq, 0, "", NoOne, NoToken)

\* prisma.user.findUnique({ where: { email } })
UserFindUnique(email) == {i \in DOMAIN users : users[i].email = email}

\* No unique index on users.email: every insert is accepted.
EmailUnique_None(email) == TRUE

\* The unique index on users.email that findUnique({ where: { email } })
\* requires: an insert of a second row with the same email is refused.
EmailUnique(email) == UserFindUnique(email) = {}

\* bcrypt.hash and bcrypt.compare: the hash is not the password, and compare
\* accepts exactly the password that was hashed.
bcryptHash(p) == <<"bcrypt", p>>

bcryptCompare(p, h) == h = bcryptHash(p)

\* generateToken throws when JWT_SECRET is not set; NoToken stands for the throw.
generateToken(id, email) == IF jwtSecret THEN <<"jwt", id, email>> ELSE NoToken

PublicUser(id) == [id |-> id, name |-> users'[id].name, email |-> users'[id].email]

AuthAt(r, label) == authPc[r] = label /\ authResp = NoAuthResp

authDeliver ==
  /\ authResp # NoAuthResp
  /\ authResp' = NoAuthResp
  /\ UNCHANGED <<users, nextUser, jwtSecret, authPc, authReq>>

AuthBegin(r) ==
  /\ AuthAt(r, "idle")
  /\ \A q \in Reqs : q < r => authPc[q] # "idle"

AuthRespond(r, R, code, message, u, token) ==
  /\ authResp' = AuthResponse(R, code, message, u, token)
  /\ authPc' = [authPc EXCEPT ![r] = "idle"]
  /\ authReq' = [authReq EXCEPT ![r] = NoAuthReq]

\* The outcome of the part of register up to the first await that follows
\* findUnique: a rejection, or 0 when the handler goes on to create.
registerFindStatus(body) ==
  IF ~registerSchemaOk(body) THEN 400
  ELSE IF UserFindUnique(body.email) # {} THEN 400
  ELSE 0

registerFindMessage(body) ==
  IF ~registerSchemaOk(body) THEN "Validation error" ELSE "User already exists"

registerFind(r, body) ==
  LET R == AuthRequest("register", body) IN
  /\ AuthBegin(r)
  /\ nextUser + Cardinality({q \in Reqs : authPc[q] = "register_create"}) < MaxUsers
  /\ IF registerFindStatus(body) # 0
       THEN AuthRespond(r, R, registerFindStatus(body), registerFindMessage(body),
                        NoOne, NoToken)
       ELSE /\ authPc' = [authPc EXCEPT ![r] = "register_create"]
            /\ authReq' = [authReq EXCEPT ![r] = R]
            /\ authResp' = authResp
  /\ UNCHANGED <<users, nextUser, jwtSecret>>

\* prisma.user.create, generateToken and the answer.
registerCreate(r) ==
  LET R == authReq[r]
      id == UserIdSeq[nextUser + 1]
  IN
  /\ AuthAt(r, "register_create")
  /\ IF ~EmailUnique(R.body.email)
       THEN /\ AuthRespond(r, R, 500, "Server error", NoOne, NoToken)
            /\ UNCHANGED <<users, nextUser>>
       ELSE /\ users' = users @@ (id :> [name |-> R.body.name,
                                         email |-> R.body.email,
                                         password |-> bcryptHash(R.body.password)])
            /\ nextUser' = nextUser + 1
            /\ IF generateToken(id, R.body.email) = NoToken
                 THEN AuthRespond(r, R, 500, "Server error", NoOne, NoToken)
                 ELSE AuthRespond(r, R, 201, "User registered successfully",
                                  PublicUser(id), generateToken(id, R.body.email))
  /\ UNCHANGED jwtSecret

loginStatus(body) ==
  IF ~loginSchemaOk(body) THEN 400
  ELSE IF UserFindUnique(body.email) = {} THEN 400
  ELSE LET id == CHOOSE i \in UserFindUnique(body.email) : TRUE IN
       IF ~bcryptCompare(body.password, users[id].password) THEN 400
       ELSE IF generateToken(id, body.email) = NoToken THEN 500
       ELSE 200

login(r, body) ==
  LET R == AuthRequest("login", body)
      code == loginStatus(body)
      id == CHOOSE i \in UserFindUnique(body.email) : TRUE
  IN
  /\ AuthBegin(r)
  /\ UNCHANGED <<users, nextUser, jwtSecret>>
  /\ CASE code = 200 -> AuthRespond(r, R, 200, "Login successful", PublicUser(id),
                                    generateToken(id, body.email))
       [] code = 500 -> AuthRespond(r, R, 500, "Server error", NoOne, NoToken)
       [] OTHER -> AuthRespond(r, R, 400,
                               IF loginSchemaOk(body) THEN "Invalid credentials"
                               ELSE "Validation error", NoOne, NoToken)

ResetSent == "If an account with that email exists, a password reset link has been sent"

\* A handler that tells the caller when the email has no account.
requestPasswordReset_Reveal(r, body) ==
  LET R == AuthRequest("requestPasswordReset", body) IN
  /\ AuthBegin(r)
  /\ UNCHANGED <<users, nextUser, jwtSecret>>
  /\ IF ~Truthy(body.email)
       THEN AuthRespond(r, R, 400, "Email is required", NoOne, NoToken)
       ELSE IF UserFindUnique(body.email) = {}
         THEN AuthRespond(r, R, 404, "User not found", NoOne, NoToken)
         ELSE AuthRespond(r, R, 200, ResetSent, NoOne, NoToken)

requestPasswordReset(r, body) ==
  LET R == AuthRequest("requestPasswordReset", body) IN
  /\ AuthBegin(r)
  /\ UNCHANGED <<users, nextUser, jwtSecret>>
  /\ IF ~Truthy(body.email)
       THEN AuthRespond(r, R, 400, "Email is required", NoOne, NoToken)
       ELSE IF UserFindUnique(body.email) = {}
         THEN AuthRespond(r, R, 200, ResetSent, NoOne, NoToken)
         ELSE AuthRespond(r, R, 200, ResetSent, NoOne, NoToken)

InitUsersEnv ==
  /\ InitApi /\ InitLib /\ InitSession /\ InitClient /\ InitVoice /\ InitRec
  /\ users = Empty
  /\ nextUser = 0
  /\ jwtSecret \in BOOLEAN
  /\ authPc = [r \in Reqs |-> "idle"]
  /\ authReq = [r \in Reqs |-> NoAuthReq]
  /\ authResp = NoAuthResp

NextUsers ==
  /\ \/ \E r \in Reqs, body \in RegisterBodies : registerFind(r, body)
     \/ \E r \in Reqs : registerCreate(r)
     \/ \E r \in Reqs, body \in LoginBodies : login(r, body)
     \/ \E r \in Reqs, body \in ResetBodies : requestPasswordReset(r, body)
     \/ authDeliver
  /\ UNCHANGED <<apiVars, libVars, sessionVars, clientVars, voiceVars, recVars>>

SpecUsers == InitUsersEnv /\ [][NextUsers]_vars

(***************************************************************************)
(* Client session: AuthProvider in src/components/AudioWaveform.tsx, over  *)
(* authAPI of the api-client.  A call to the service runs its handler      *)
(* without interleaving, or fails on the network.                          *)
(***************************************************************************)

\* Date.now().toString() at the two instants the model distinguishes.
ClientClock == {"1700000000000", "1700000000001"}

JSONstringify(v) == <<"json", v>>

JSONparse(s) == s[2]

DemoUser ==
  [id |-> "1", name |-> <<"D", "e", "m", "o", " ", "U", "s", "e", "r">>,
   email |-> "demo@example.com"]

mock_jwt_token == <<"mock_jwt_token">>

DemoPassword == <<"p", "a", "s", "s", "w", "o", "r", "d">>

AuthCall(op, email, password, service) ==
  [op |-> op, email |-> email, password |-> password, service |-> service]

StoreSession(token, u) ==
  /\ localStorage' = ("auth_token" :> token) @@ ("user_data" :> JSONstringify(u))
                       @@ localStorage
  /\ user' = u

\* checkAuth, run when the provider mounts: the user state starts as null and
\* is restored from localStorage when a token is stored.
AuthProvider_checkAuth ==
  /\ user' = IF "auth_token" \in DOMAIN localStorage
               THEN IF "user_data" \in DOMAIN localStorage
                      THEN JSONparse(localStorage["user_data"])
                      ELSE DemoUser
               ELSE NoOne
  /\ authCall' = AuthCall("checkAuth", NULL, << >>, "none")
  /\ UNCHANGED <<localStorage, usersVars>>

AuthProvider_login(email, password) ==
  LET body == [email |-> email, password |-> password]
      id == CHOOSE i \in UserFindUnique(email) : TRUE
  IN
  \E net \in BOOLEAN :
    /\ UNCHANGED usersVars
    /\ IF net /\ loginStatus(body) = 200
         THEN /\ StoreSession(generateToken(id, email), PublicUser(id))
              /\ authCall' = AuthCall("login", email, password, "accepted")
         ELSE /\ authCall' = AuthCall("login", email, password,
                                      IF net THEN "rejected" ELSE "unreachable")
              /\ IF email = "demo@example.com" /\ password = DemoPassword
                   THEN StoreSession(mock_jwt_token, DemoUser)
                   ELSE UNCHANGED <<user, localStorage>>

AuthProvider_register(name, email, password) ==
  LET body == [name |-> name, email |-> email, password |-> password]
      id == UserIdSeq[nextUser + 1]
  IN
  \E net \in BOOLEAN, t \in ClientClock :
    /\ UNCHANGED <<jwtSecret, authPc, authReq, authResp>>
    /\ IF /\ net
          /\ registerFindStatus(body) = 0
          /\ EmailUnique(email)
          /\ generateToken(id, email) # NoToken
         THEN /\ nextUser < MaxUsers
              /\ users' = users @@ (id :> [name |-> name, email |-> email,
                                           password |-> bcryptHash(password)])
              /\ nextUser' = nextUser + 1
              /\ StoreSession(generateToken(id, email), PublicUser(id))
              /\ authCall' = AuthCall("register", email, password, "accepted")
         ELSE /\ UNCHANGED <<users, nextUser>>
              /\ authCall' = AuthCall("register", email, password,
                                      IF net THEN "rejected" ELSE "unreachable")
              /\ StoreSession(mock_jwt_token,
                              [id |-> t, name |-> name, email |-> email])

AuthProvider_logout ==
  /\ localStorage' = [k \in DOMAIN localStorage \ {"auth_token", "user_data"} |->
                        localStorage[k]]
  /\ user' = NoOne
  /\ authCall' = AuthCall("logout", NULL, << >>, "none")
  /\ UNCHANGED usersVars

NextSession ==
  /\ \/ AuthProvider_checkAuth
     \/ \E b \in LoginBodies : AuthProvider_login(b.email, b.password)
     \/ \E b \in RegisterBodies : AuthProvider_register(b.name, b.email, b.password)
     \/ AuthProvider_logout
  /\ UNCHANGED <<apiVars, libVars, clientVars, voiceVars, recVars>>

SpecSession == Init /\ [][NextSession]_vars

(***************************************************************************)
(* Browser client: the browser branches of src/lib/api.ts (typeof window   *)
(* !== "undefined": pool stays undefined) and the handlers of the Home     *)
(* component that call them.  The service is the note and folder           *)
(* controllers above, called by one signed-in user over the api-client.    *)
(***************************************************************************)
ClientUser == "u1"

UNDEF == "undefined"

\* Date.now().toString() at the successive instants of the client clock
DateNowSeq ==
  <<"1700000000000", "1700000000001", "1700000000002", "1700000000003",
    "1700000000004", "1700000000005", "1700000000006", "1700000000007",
    "1700000000008", "1700000000009", "1700000000010", "1700000000011",
    "1700000000012", "1700000000013", "1700000000014", "1700000000015">>

DateNowString(t) == DateNowSeq[t + 1]

\* a boolean as the client holds it next to undefined
JsBool(b) == IF b THEN "true" ELSE "false"

Falsy(v) == v \in {UNDEF, NULL, "false", ""}

EditorTitles == {"b"}

FolderNames == {"a"}

IndexOf(seq, id) ==
  IF \E i \in DOMAIN seq : seq[i].id = id
    THEN CHOOSE i \in DOMAIN seq : seq[i].id = id /\ \A j \in 1..(i - 1) : seq[j].id # id
    ELSE 0

MapNotes(seq, F(_)) == [i \in DOMAIN seq |-> F(seq[i])]

\* the row of a note as the service returns it in JSON
ApiNoteRow(id) ==
  [id |-> id, title |-> notes[id].title, folderId |-> notes[id].folderId,
   isDeleted |-> JsBool(notes[id].isDeleted)]

ApiFolderRow(id) == [id |-> id, name |-> folders[id].name]

\* Home.setup: the fetched row is read through its snake_case keys
FormatNote(row) ==
  [id |-> row.id, title |-> row.title,
   folderId |-> Get(row, "folder_id", UNDEF),
   isDeleted |-> Get(row, "is_deleted", UNDEF)]

FormatFolder(row) == [id |-> row.id, name |-> row.name]

\* the mock branch of getNotes(includeDeleted = false)
MockGetNotes == SelectSeq(mockNotes, LAMBDA n : Falsy(n.is_deleted))

\* folders of the caller in the order of orderBy: { createdAt: "asc" }
FolderOrderBy(ids) ==
  CHOOSE s \in Orderings(ids) :
    \A i \in 1..(Len(s) - 1) : folders[s[i]].createdAt <= folders[s[i + 1]].createdAt

\* the mock branch of createNote
MockCreateNote(id, note) ==
  Append(mockNotes,
         [id |-> id, title |-> note.title,
          folder_id |-> IF Falsy(note.folderId) THEN NULL ELSE note.folderId,
          is_deleted |-> "false"])

\* the mock branch of updateNote: the entry is replaced by the argument
MockUpdateNote(note) ==
  IF IndexOf(mockNotes, note.id) = 0 THEN mockNotes
  ELSE [mockNotes EXCEPT ![IndexOf(mockNotes, note.id)] =
          [id |-> note.id, title |-> note.title, folder_id |-> note.folderId,
           is_deleted |-> note.isDeleted]]

\* JSON.stringify drops the keys whose value is undefined
ApiCreateNoteBody(note) ==
  ("title" :> note.title) @@ ("hasAudio" :> FALSE) @@ ("tags" :> {})
    @@ ("isFavorite" :> FALSE)
    @@ ("folderId" :> IF Falsy(note.folderId) THEN NULL ELSE note.folderId)

ApiUpdateNoteBody(note) ==
  ("title" :> note.title) @@ ("hasAudio" :> FALSE) @@ ("tags" :> {})
    @@ ("isFavorite" :> FALSE)
    @@ (IF note.folderId = UNDEF THEN Empty ELSE "folderId" :> note.folderId)

CliIdleStep == cliPc.at = "idle" /\ resp = NoResp

\* the request of the client is the only one the service handles
ServiceIdle == UNCHANGED apiVars

AwaitApi(at, note, libId, fetched, op) ==
  /\ cliPc' = CliPc(at, note, libId, fetched)
  /\ cliCall' = CliCall(op, note.id, "pending", "api")

Consume(at) == cliPc.at = at /\ resp # NoResp /\ resp' = NoResp /\ cliPc' = CliIdle

network ==
  /\ CliIdleStep
  /\ online' = ~online
  /\ UNCHANGED <<mockNotes, mockFolders, homeNotes, homeFolders,
                 dateNow, cliPc, cliCall>>

\* setup on mount: getNotes() then getFolders() fill the mirror
Home_setup ==
  /\ CliIdleStep
  /\ UNCHANGED <<mockNotes, mockFolders, dateNow, online>>
  /\ IF online
       THEN /\ AwaitApi("getNotes_api", NoNote, NULL, << >>, "getNotes")
            /\ UNCHANGED <<homeNotes, homeFolders>>
       ELSE /\ homeNotes' = MapNotes(MockGetNotes, FormatNote)
            /\ homeFolders' = MapNotes(mockFolders, FormatFolder)
            /\ cliPc' = cliPc
            /\ cliCall' = CliCall("getNotes", NULL, "ok", "mock")

Home_setup_notes ==
  /\ cliPc.at = "getNotes_api" /\ resp # NoResp /\ resp' = NoResp
  /\ cliPc' = CliPc("getFolders_api", NoNote, NULL,
                    [i \in DOMAIN resp.list |-> FormatNote(ApiNoteRow(resp.list[i]))])
  /\ cliCall' = CliCall("getNotes", NULL, "ok", "api")
  /\ UNCHANGED <<mockNotes, mockFolders, homeNotes, homeFolders,
                 dateNow, online>>

Home_setup_folders ==
  /\ Consume("getFolders_api")
  /\ homeNotes' = cliPc.fetched
  /\ homeFolders' = [i \in 1..Cardinality(resp.result) |->
                       FormatFolder(ApiFolderRow(FolderOrderBy(resp.result)[i]))]
  /\ cliCall' = CliCall("getFolders", NULL, "ok", "api")
  /\ UNCHANGED <<mockNotes, mockFolders, dateNow, online>>

\* createNewNote, for each value of the state selectedFolderId: the mirror
\* entry takes its id from Date.now() in Home; the
\* id of createNote is taken from Date.now() at its own call
Home_createNewNote(selectedFolderId) ==
  \E later \in {0, 1} :
    LET newNote == [id |-> DateNowString(dateNow), title |-> "Untitled Note",
                    folderId |-> selectedFolderId, isDeleted |-> "false"]
        id == DateNowString(dateNow + later)
    IN
    /\ CliIdleStep
    /\ nextNote + Len(mockNotes) < MaxClientNotes
    /\ online => now < MaxTime
    /\ dateNow' = dateNow + 2
    /\ UNCHANGED <<mockFolders, homeFolders, online>>
    /\ IF online
         THEN /\ AwaitApi("createNote_api", newNote, id, << >>, "createNote")
              /\ UNCHANGED <<mockNotes, homeNotes>>
         ELSE /\ mockNotes' = MockCreateNote(id, newNote)
              /\ homeNotes' = <<newNote>> \o homeNotes
              /\ cliPc' = cliPc
              /\ cliCall' = CliCall("createNote", newNote.id, "ok", "mock")

Home_createNewNote_done ==
  /\ Consume("createNote_api")
  /\ homeNotes' = <<cliPc.note>> \o homeNotes
  /\ IF resp.status = 201
       THEN /\ mockNotes' = mockNotes
            /\ cliCall' = CliCall("createNote", cliPc.note.id, "ok", "api")
       ELSE /\ mockNotes' = MockCreateNote(cliPc.libId, cliPc.note)
            /\ cliCall' = CliCall("createNote", cliPc.note.id, "ok", "mock")
  /\ UNCHANGED <<mockFolders, homeFolders, dateNow, online>>

Home_createNewFolder(name) ==
  \E later \in {0, 1} :
    LET newFolder == [id |-> DateNowString(dateNow), name |-> name]
        id == DateNowString(dateNow + later)
    IN
    /\ CliIdleStep
    /\ nextFolder + Len(mockFolders) < MaxClientFolders
    /\ online => nextFolder < MaxFolders
    /\ dateNow' = dateNow + 2
    /\ UNCHANGED <<mockNotes, homeNotes, online>>
    /\ IF online
         THEN /\ cliPc' = CliPc("createFolder_api",
                                [NoNote EXCEPT !.id = newFolder.id, !.title = name],
                                id, << >>)
              /\ cliCall' = CliCall("createFolder", newFolder.id, "pending", "api")
              /\ UNCHANGED <<mockFolders, homeFolders>>
         ELSE /\ mockFolders' = Append(mockFolders, [id |-> id, name |-> name])
              /\ homeFolders' = Append(homeFolders, newFolder)
              /\ cliPc' = cliPc
              /\ cliCall' = CliCall("createFolder", newFolder.id, "ok", "mock")

Home_createNewFolder_done ==
  LET newFolder == [id |-> cliPc.note.id, name |-> cliPc.note.title] IN
  /\ Consume("createFolder_api")
  /\ homeFolders' = Append(homeFolders, newFolder)
  /\ IF resp.status = 201
       THEN /\ mockFolders' = mockFolders
            /\ cliCall' = CliCall("createFolder", newFolder.id, "ok", "api")
       ELSE /\ mockFolders' = Append(mockFolders,
                                     [id |-> cliPc.libId, name |-> newFolder.name])
            /\ cliCall' = CliCall("createFolder", newFolder.id, "ok", "mock")
  /\ UNCHANGED <<mockNotes, homeNotes, dateNow, online>>

\* NoteEditor.handleSave: the note handed to onUpdateNote has neither
\* folderId nor isDeleted
handleSave(id, title) ==
  [id |-> id, title |-> title, folderId |-> UNDEF, isDeleted |-> UNDEF]

ReplaceNote(seq, note) ==
  [i \in DOMAIN seq |-> IF seq[i].id = note.id THEN note ELSE seq[i]]

Home_updateNote(updatedNote) ==
  /\ CliIdleStep
  /\ \E i \in DOMAIN homeNotes : homeNotes[i].id = updatedNote.id
  /\ online => now < MaxTime
  /\ UNCHANGED <<mockFolders, homeFolders, dateNow, online>>
  /\ IF online
       THEN /\ AwaitApi("updateNote_api", updatedNote, NULL, << >>, "updateNote")
            /\ UNCHANGED <<mockNotes, homeNotes>>
       ELSE /\ mockNotes' = MockUpdateNote(updatedNote)
            /\ homeNotes' = ReplaceNote(homeNotes, updatedNote)
            /\ cliPc' = cliPc
            /\ cliCall' = CliCall("updateNote", updatedNote.id,
                                  IF IndexOf(mockNotes, updatedNote.id) = 0
                                    THEN "failed" ELSE "ok",
                                  "mock")

Home_updateNote_done ==
  /\ Consume("updateNote_api")
  /\ homeNotes' = ReplaceNote(homeNotes, cliPc.note)
  /\ IF resp.status = 200
       THEN /\ mockNotes' = mockNotes
            /\ cliCall' = CliCall("updateNote", cliPc.note.id, "ok", "api")
       ELSE /\ mockNotes' = MockUpdateNote(cliPc.note)
            /\ cliCall' = CliCall("updateNote", cliPc.note.id,
                                  IF IndexOf(mockNotes, cliPc.note.id) = 0
                                    THEN "failed" ELSE "ok",
                                  "mock")
  /\ UNCHANGED <<mockFolders, homeFolders, dateNow, online>>

\* moveNoteToFolder, moveNoteToTrash, restoreNoteFromTrash and
\* deleteNotePermanently have no browser branch: pool.query on the undefined
\* pool throws, the catch returns false, and no store is touched.
PoolCall(op, id) ==
  /\ cliCall' = CliCall(op, id, "failed", "none")
  /\ UNCHANGED <<mockNotes, mockFolders>>

\* the handlers of Home discard the result of the call and patch the mirror
PatchNotes(patched) == homeNotes' = patched

Home_handleMoveNoteToFolder(noteId, folderId) ==
  /\ CliIdleStep
  /\ \E i \in DOMAIN homeNotes : homeNotes[i].id = noteId
  /\ PoolCall("moveNoteToFolder", noteId)
  /\ PatchNotes([i \in DOMAIN homeNotes |->
                   IF homeNotes[i].id = noteId
                     THEN [homeNotes[i] EXCEPT !.folderId = folderId]
                     ELSE homeNotes[i]])
  /\ UNCHANGED <<homeFolders, dateNow, online, cliPc>>

Home_handleDeleteNote(noteId) ==
  /\ CliIdleStep
  /\ \E i \in DOMAIN homeNotes : homeNotes[i].id = noteId
  /\ PoolCall("moveNoteToTrash", noteId)
  /\ PatchNotes([i \in DOMAIN homeNotes |->
                   IF homeNotes[i].id = noteId
                     THEN [homeNotes[i] EXCEPT !.isDeleted = "true"]
                     ELSE homeNotes[i]])
  /\ UNCHANGED <<homeFolders, dateNow, online, cliPc>>

Home_handleRestoreNote(noteId) ==
  /\ CliIdleStep
  /\ \E i \in DOMAIN homeNotes : homeNotes[i].id = noteId
  /\ PoolCall("restoreNoteFromTrash", noteId)
  /\ PatchNotes([i \in DOMAIN homeNotes |->
                   IF homeNotes[i].id = noteId
                     THEN [homeNotes[i] EXCEPT !.isDeleted = "false"]
                     ELSE homeNotes[i]])
  /\ UNCHANGED <<homeFolders, dateNow, online, cliPc>>

Home_handleDeleteNotePermanently(noteId) ==
  /\ CliIdleStep
  /\ \E i \in DOMAIN homeNotes : homeNotes[i].id = noteId
  /\ PoolCall("deleteNotePermanently", noteId)
  /\ PatchNotes(SelectSeq(homeNotes, LAMBDA n : n.id # noteId))
  /\ UNCHANGED <<homeFolders, dateNow, online, cliPc>>

HomeIds == {homeNotes[i].id : i \in DOMAIN homeNotes}

HomeFolderIds == {homeFolders[i].id : i \in DOMAIN homeFolders}

\* the service handles the request the client is waiting for
Service ==
  /\ \/ cliPc.at = "getNotes_api" /\ getNotes(1, ClientUser, FALSE)
     \/ cliPc.at = "getFolders_api" /\ getFolders(1, ClientUser)
     \/ cliPc.at = "createNote_api"
          /\ createNote(1, ClientUser, ApiCreateNoteBody(cliPc.note))
     \/ cliPc.at = "createFolder_api"
          /\ createFolder(1, ClientUser, "name" :> cliPc.note.title)
     \/ cliPc.at = "updateNote_api"
          /\ updateNoteFind(1, ClientUser, cliPc.note.id, ApiUpdateNoteBody(cliPc.note))
     \/ cliPc.at = "updateNote_api" /\ updateNoteUpdate(1)
  /\ UNCHANGED clientVars

NextClient ==
  /\ \/ Service
     \/ /\ \/ network
           \/ Home_setup
           \/ \E selectedFolderId \in HomeFolderIds \cup {NULL} :
                Home_createNewNote(selectedFolderId)
           \/ \E name \in FolderNames : Home_createNewFolder(name)
           \/ \E id \in HomeIds, title \in EditorTitles :
                Home_updateNote(handleSave(id, title))
           \/ \E id \in HomeIds, f \in HomeFolderIds \cup {NULL} :
                Home_handleMoveNoteToFolder(id, f)
           \/ \E id \in HomeIds : Home_handleDeleteNote(id)
           \/ \E id \in HomeIds : Home_handleRestoreNote(id)
           \/ \E id \in HomeIds : Home_handleDeleteNotePermanently(id)
        /\ ServiceIdle
     \/ /\ \/ Home_setup_notes
           \/ Home_setup_folders
           \/ Home_createNewNote_done
           \/ Home_createNewFolder_done
           \/ Home_updateNote_done
        /\ UNCHANGED <<store, pc, req, unlinked>>
  /\ UNCHANGED <<libVars, usersVars, sessionVars, voiceVars, recVars>>

SpecClient == Init /\ [][NextClient]_vars

(***************************************************************************)
(* Voice commands: useVoiceCommands in src/components/AudioWaveform.tsx.   *)
(* A string is the sequence of its characters; a Cyrillic letter is named  *)
(* by its code point.                                                      *)
(***************************************************************************)
commandDelay == 1500

\* the resolution of the clock
VoiceTick == 500

VoiceEnd == VoiceEpoch + MaxVoiceTicks * VoiceTick

str_arial == <<"a", "r", "i", "a", "l">>

str_times == <<"t", "i", "m", "e", "s">>

\* "жирний"
str_zhyrnyi == <<"u0436", "u0438", "u0440", "u043D", "u0438", "u0439">>

\* the list voiceCommands handed to the hook, in list order
commands ==
  << [name |-> "bold", phrases |-> <<str_zhyrnyi>>],
     [name |-> "arial", phrases |-> <<str_arial>>],
     [name |-> "times", phrases |-> <<str_times, str_arial \o <<" ">> \o str_times>>] >>

Transcripts ==
  { str_arial,
    <<"A">> \o Tail(str_arial),
    str_arial \o <<"s">>,
    str_times \o <<" ">> \o str_arial,
    str_zhyrnyi,
    <<"u0416">> \o Tail(str_zhyrnyi),
    str_arial \o <<" ">> \o str_zhyrnyi,
    <<"o", "k">> }

\* String.prototype.toLowerCase on the characters of the model
LowerChar(c) ==
  CASE c = "A" -> "a"
    [] c = "u0416" -> "u0436"
    [] OTHER -> c

toLowerCase(s) == [i \in DOMAIN s |-> LowerChar(s[i])]

\* \w of a RegExp without the u flag: ASCII letters, digits and underscore
WordChars == {"a", "r", "i", "l", "t", "m", "e", "s", "o", "k", "A"}

IsWordAt(s, i) == i \in DOMAIN s /\ s[i] \in WordChars

\* \b between the characters i and i + 1 of s
WordBoundary(s, i) == IsWordAt(s, i) # IsWordAt(s, i + 1)

\* new RegExp(`\\b${phrase}\\b`, "i").test(s)
RegExpTest(phrase, s) ==
  \E k \in 0..(Len(s) - Len(phrase)) :
    /\ toLowerCase(SubSeq(s, k + 1, k + Len(phrase))) = toLowerCase(phrase)
    /\ WordBoundary(s, k)
    /\ WordBoundary(s, k + Len(phrase))

PhraseMatches(transcript, phrase) ==
  LET lowerTranscript == toLowerCase(transcript)
      lowerPhrase == toLowerCase(phrase)
  IN lowerTranscript = lowerPhrase \/ RegExpTest(lowerPhrase, lowerTranscript)

CommandMatches(command, transcript) ==
  \E i \in DOMAIN command.phrases : PhraseMatches(transcript, command.phrases[i])

\* commands.find(...): the index of the first command that matches, or 0
find(transcript) ==
  IF \E i \in DOMAIN commands : CommandMatches(commands[i], transcript)
    THEN CHOOSE i \in DOMAIN commands :
           /\ CommandMatches(commands[i], transcript)
           /\ \A j \in 1..(i - 1) : ~CommandMatches(commands[j], transcript)
    ELSE 0

\* mutant: the gate opens when exactly commandDelay has passed
DebouncePassed_Inclusive(t, lastCommandTime) == t - lastCommandTime >= commandDelay

DebouncePassed(t, lastCommandTime) == t - lastCommandTime > commandDelay

\* the timers of 100 ms run out before the clock shows the next instant
voiceTimePasses ==
  /\ voiceNow < VoiceEnd
  /\ scheduled = << >> /\ ~restartTimer
  /\ voiceNow' = voiceNow + VoiceTick
  /\ UNCHANGED <<lastVoiceCommandTime, scheduled, dispatchLog, voiceEvent,
                 isListening, listening, recognition, restartTimer>>

handleResult(transcript) ==
  LET i == find(transcript)
      dispatch == DebouncePassed(voiceNow, lastVoiceCommandTime) /\ i # 0
  IN
  /\ recognition = "active"
  /\ voiceEvent' = VoiceEvent(voiceNow, transcript,
                              IF dispatch THEN commands[i].name ELSE NULL)
  /\ IF dispatch
       THEN /\ lastVoiceCommandTime' = voiceNow
            /\ scheduled' = Append(scheduled, commands[i].name)
            /\ dispatchLog' = Append(dispatchLog, voiceNow)
       ELSE UNCHANGED <<lastVoiceCommandTime, scheduled, dispatchLog>>
  /\ UNCHANGED <<voiceNow, isListening, listening, recognition, restartTimer>>

\* the timer of 100 ms set by handleResult: matchedCommand.handler(args)
commandTimer ==
  /\ scheduled # << >>
  /\ scheduled' = Tail(scheduled)
  /\ UNCHANGED <<voiceNow, lastVoiceCommandTime, dispatchLog, voiceEvent,
                 isListening, listening, recognition, restartTimer>>

\* setVoiceCommandsEnabled(!voiceCommandsEnabled) followed by the start/stop
\* effect; recognition.start() throws unless the recogniser is idle
setVoiceCommandsEnabled ==
  /\ isListening' = ~isListening
  /\ IF isListening' /\ ~listening
       THEN IF recognition = "idle"
              THEN recognition' = "active" /\ listening' = TRUE
              ELSE UNCHANGED <<recognition, listening>>
       ELSE IF ~isListening' /\ listening
         THEN /\ recognition' = IF recognition = "active" THEN "stopping"
                                ELSE recognition
              /\ listening' = FALSE
         ELSE UNCHANGED <<recognition, listening>>
  /\ UNCHANGED <<voiceNow, lastVoiceCommandTime, scheduled, dispatchLog,
                 voiceEvent, restartTimer>>

\* the event 'error', which the event 'end' follows: handleError sets
\* listening to false, and the effect then calls start() on a recogniser that
\* has not ended yet
handleError ==
  /\ recognition = "active"
  /\ recognition' = "stopping"
  /\ listening' = FALSE
  /\ UNCHANGED <<voiceNow, lastVoiceCommandTime, scheduled, dispatchLog,
                 voiceEvent, isListening, restartTimer>>

\* the event 'end', after stop(), after an error or when the recogniser
\* gives up by itself: handleEnd sets the restart timer when listening
handleEnd ==
  /\ recognition \in {"active", "stopping"}
  /\ recognition' = "idle"
  /\ restartTimer' = (restartTimer \/ listening)
  /\ UNCHANGED <<voiceNow, lastVoiceCommandTime, scheduled, dispatchLog,
                 voiceEvent, isListening, listening>>

\* the restart timer of 100 ms: its closure holds the value listening had
\* when the timer was set, which was true, so start() is called
restartTimerFires ==
  /\ restartTimer
  /\ restartTimer' = FALSE
  /\ recognition' = IF recognition = "idle" THEN "active" ELSE recognition
  /\ UNCHANGED <<voiceNow, lastVoiceCommandTime, scheduled, dispatchLog,
                 voiceEvent, isListening, listening>>

NextVoice ==
  /\ \/ voiceTimePasses
     \/ \E transcript \in Transcripts : handleResult(transcript)
     \/ commandTimer
     \/ setVoiceCommandsEnabled
     \/ handleError
     \/ handleEnd
     \/ restartTimerFires
  /\ UNCHANGED <<apiVars, libVars, usersVars, sessionVars, clientVars, recVars>>

SpecVoice == Init /\ [][NextVoice]_vars

(***************************************************************************)
(* Audio recorder: VoiceRecorder and the recorder of NoteEditor.  The      *)
(* handlers run with the state of the current render.                      *)
(***************************************************************************)
Components == {"VoiceRecorder", "NoteEditor"}

\* startRecording up to `await navigator.mediaDevices.getUserMedia`
startRecording ==
  /\ pendingStarts < MaxPendingStarts
  /\ pendingStarts' = pendingStarts + 1
  /\ recCall' = RecCall("startRecording", isPaused)
  /\ UNCHANGED <<component, isRecording, isPaused, mediaRecorder, micError>>

\* the microphone is granted: a new recorder replaces the one of the ref
getUserMediaResolves ==
  /\ pendingStarts > 0
  /\ pendingStarts' = pendingStarts - 1
  /\ mediaRecorder' = "recording"
  /\ isRecording' = TRUE
  /\ isPaused' = FALSE
  /\ micError' = FALSE
  /\ recCall' = RecCall("granted", isPaused)
  /\ UNCHANGED component

\* the microphone is refused: the catch reports the error
getUserMediaRejects ==
  /\ pendingStarts > 0
  /\ pendingStarts' = pendingStarts - 1
  /\ micError' = (component = "VoiceRecorder" \/ micError)
  /\ recCall' = RecCall("refused", isPaused)
  /\ UNCHANGED <<component, isRecording, isPaused, mediaRecorder>>

\* mutant: stopRecording without setIsPaused(false)
StopEffect_KeepPaused ==
  IF mediaRecorder # "null" /\ isRecording
    THEN IF mediaRecorder = "inactive"
           THEN UNCHANGED <<isRecording, isPaused, mediaRecorder>>
           ELSE /\ mediaRecorder' = "inactive"
                /\ isRecording' = FALSE
                /\ isPaused' = isPaused
    ELSE UNCHANGED <<isRecording, isPaused, mediaRecorder>>

\* the body of stopRecording; stop() throws on an inactive recorder, before
\* any state is set
StopEffect ==
  IF mediaRecorder # "null" /\ isRecording
    THEN IF mediaRecorder = "inactive"
           THEN UNCHANGED <<isRecording, isPaused, mediaRecorder>>
           ELSE /\ mediaRecorder' = "inactive"
                /\ isRecording' = FALSE
                /\ isPaused' = FALSE
    ELSE UNCHANGED <<isRecording, isPaused, mediaRecorder>>

stopRecording ==
  /\ StopEffect
  /\ recCall' = RecCall("stopRecording", isPaused)
  /\ UNCHANGED <<component, pendingStarts, micError>>

\* pauseRecording; pause() and resume() throw on an inactive recorder and in
\* a browser that does not support them
pauseRecording ==
  \E supported \in BOOLEAN :
    LET ok == supported /\ mediaRecorder \in {"recording", "paused"} IN
    /\ recCall' = RecCall("pauseRecording", isPaused)
    /\ UNCHANGED <<component, micError>>
    /\ IF mediaRecorder # "null" /\ isRecording /\ ~isPaused
         THEN IF ok
                THEN /\ mediaRecorder' = "paused"
                     /\ isPaused' = TRUE
                     /\ UNCHANGED <<isRecording, pendingStarts>>
                ELSE IF component = "NoteEditor"
                  THEN StopEffect /\ UNCHANGED pendingStarts
                  ELSE UNCHANGED <<isRecording, isPaused, mediaRecorder, pendingStarts>>
         ELSE IF mediaRecorder # "null" /\ isRecording /\ isPaused
           THEN IF ok
                  THEN /\ mediaRecorder' = "recording"
                       /\ isPaused' = FALSE
                       /\ UNCHANGED <<isRecording, pendingStarts>>
                  ELSE IF component = "NoteEditor"
                    THEN /\ StopEffect
                         /\ pendingStarts < MaxPendingStarts
                         /\ pendingStarts' = pendingStarts + 1
                    ELSE UNCHANGED <<isRecording, isPaused, mediaRecorder,
                                     pendingStarts>>
           ELSE UNCHANGED <<isRecording, isPaused, mediaRecorder, pendingStarts>>

InitRecEnv ==
  /\ InitApi /\ InitLib /\ InitUsers /\ InitSession /\ InitClient /\ InitVoice
  /\ component \in Components
  /\ RecState

NextRec ==
  /\ \/ startRecording
     \/ getUserMediaResolves
     \/ getUserMediaRejects
     \/ pauseRecording
     \/ stopRecording
  /\ UNCHANGED <<apiVars, libVars, usersVars, sessionVars, clientVars, voiceVars>>

SpecRec == InitRecEnv /\ [][NextRec]_vars

(***************************************************************************)
(* Properties                                                              *)
(***************************************************************************)
NoteOps ==
  {"getNoteById", "updateNote", "moveNoteToTrash", "restoreNoteFromTrash",
   "deleteNotePermanently", "moveNoteToFolder"}
FolderOps == {"updateFolder", "deleteFolder"}

\* the folder a moveNoteToFolder request names
TargetFolder(R) ==
  IF R.op = "moveNoteToFolder" THEN Get(R.body, "folderId", NULL) ELSE NULL

ForeignNote(R) ==
  R.op \in NoteOps /\ R.id \in DOMAIN notes /\ notes[R.id].userId # R.user

ForeignFolder(R) ==
  \/ R.op \in FolderOps /\ R.id \in DOMAIN folders /\ folders[R.id].userId # R.user
  \/ /\ TargetFolder(R) \in DOMAIN folders
     /\ folders[TargetFolder(R)].userId # R.user

\* a request was taken by a handler that goes on to its next statement
Accepted(r) == pc[r] = "idle" /\ pc'[r] # "idle"

\* this step sent a response
Answered == resp' # NoResp

\* folder ids that were generated and whose row is gone
DeletedFolders == {FolderIdSeq[i] : i \in 1..nextFolder} \ DOMAIN folders

\* the fields that neither the trash nor the restore operation may change
KeptFields ==
  {"userId", "title", "content", "audioUrl", "hasAudio", "tags", "isFavorite",
   "folderId"}

\* C1: a call of one user on a note or folder owned by another user is
\* answered 404 Not Found and changes no row, no such call gets past the
\* ownership check, and the lists of a user hold only rows the user owns.
C1_Isolation ==
  [][ /\ \A r \in Reqs : Accepted(r) =>
           ~ForeignNote(req'[r]) /\ ~(req'[r].op \in FolderOps /\ ForeignFolder(req'[r]))
      /\ Answered =>
           /\ (ForeignNote(resp'.req) \/ ForeignFolder(resp'.req)) =>
                resp'.status = 404 /\ notes' = notes /\ folders' = folders
           /\ resp'.req.op = "getNotes" =>
                \A n \in resp'.result : notes[n].userId = resp'.req.user
           /\ resp'.req.op = "getFolders" =>
                \A f \in resp'.result : folders[f].userId = resp'.req.user
    ]_vars

C1_Witness ==
  /\ resp.status = 404
  /\ resp.req.op = "updateNote"
  /\ resp.req.body # Empty
  /\ resp.req.id \in DOMAIN notes
  /\ notes[resp.req.id].userId # resp.req.user

\* C2: every note with a folder reference references an existing folder
\* owned by the owner of the note.
C2_FolderRefOwned ==
  \A n \in DOMAIN notes :
    notes[n].folderId # NULL =>
      /\ notes[n].folderId \in DOMAIN folders
      /\ folders[notes[n].folderId].userId = notes[n].userId

\* C3: once a note was deleted permanently its row never exists again, no
\* later request on its id gets past the existence check, each is answered
\* 404, and no list contains it.
C3_RemovedTerminal ==
  [][ /\ removed \cap DOMAIN notes' = {}
      /\ \A r \in Reqs : Accepted(r) /\ req'[r].op \in NoteOps => req'[r].id \notin removed
      /\ (Answered /\ pc' = pc /\ resp'.req.op \in NoteOps /\ resp'.req.id \in removed) =>
           resp'.status = 404 /\ notes' = notes
      /\ (Answered /\ resp'.req.op = "getNotes") => resp'.result \cap removed = {}
    ]_vars

C3_Witness ==
  /\ resp.req.op = "restoreNoteFromTrash"
  /\ resp.req.id \in removed
  /\ resp.status = 404

\* C4: a note row disappears only in the step in which deleteNotePermanently
\* on that note answers 200.
C4_OnlyHardDeleteRemoves ==
  [][ \A n \in DOMAIN notes :
        n \notin DOMAIN notes' =>
          /\ resp'.req.op = "deleteNotePermanently"
          /\ resp'.req.id = n
          /\ resp'.status = 200
    ]_vars

C4_Witness ==
  /\ resp.req.op = "deleteFolder"
  /\ resp.status = 200
  /\ resp.unlinked # {}
  /\ resp.unlinked \subseteq DOMAIN notes

\* C5: a successful moveNoteToTrash or restoreNoteFromTrash changes, of all
\* stored rows, only is_deleted and updated_at of its note; is_deleted is
\* true after the former and false after the latter, so that trashing and
\* then restoring a note gives back every other field as it was.
C5_TrashRestoreFrame ==
  [][ (Answered /\ resp'.status = 200
         /\ resp'.req.op \in {"moveNoteToTrash", "restoreNoteFromTrash"}) =>
        LET id == resp'.req.id
        IN /\ id \in DOMAIN notes
           /\ DOMAIN notes' = DOMAIN notes
           /\ \A k \in KeptFields : notes'[id][k] = notes[id][k]
           /\ notes'[id].isDeleted = (resp'.req.op = "moveNoteToTrash")
           /\ \A n \in DOMAIN notes \ {id} : notes'[n] = notes[n]
           /\ folders' = folders
    ]_vars

C5_Witness ==
  /\ resp.req.op = "restoreNoteFromTrash"
  /\ resp.status = 200
  /\ resp.before # {}
  /\ \A row \in resp.before : row.isDeleted /\ row.folderId # NULL
  /\ ~notes[resp.req.id].isDeleted
  /\ notes[resp.req.id].folderId # NULL

\* C6: moveNoteToTrash on a note of the caller that is already in the trash
\* answers 200 and the note stays in the trash; restoreNoteFromTrash on an
\* active note of the caller answers 200 and the note stays active.
C6_Idempotent ==
  [][ (Answered /\ resp'.req.id \in DOMAIN notes
         /\ notes[resp'.req.id].userId = resp'.req.user) =>
        LET id == resp'.req.id
        IN /\ (resp'.req.op = "moveNoteToTrash" /\ notes[id].isDeleted) =>
                resp'.status = 200 /\ id \in DOMAIN notes' /\ notes'[id].isDeleted
           /\ (resp'.req.op = "restoreNoteFromTrash" /\ ~notes[id].isDeleted) =>
                resp'.status = 200 /\ id \in DOMAIN notes' /\ ~notes'[id].isDeleted
    ]_vars

C6_Witness ==
  /\ resp.req.op = "moveNoteToTrash"
  /\ resp.status = 200
  /\ resp.before # {}
  /\ \A row \in resp.before : row.isDeleted
  /\ notes[resp.req.id].isDeleted

C8_UnlinkBeforeRemove ==
  [][ /\ \A f \in DOMAIN libFolders :
           f \notin DOMAIN libFolders' =>
             \A n \in DOMAIN libNotes' : libNotes'[n].folder_id # f
      /\ \A f \in DOMAIN folders :
           f \notin DOMAIN folders' =>
             \A n \in DOMAIN notes' : notes'[n].folderId # f
    ]_vars

\* C9: when deleteFolder fails at the removal of the folder and the folder
\* is still there, the notes it had unlinked reference the folder again.
C9_RolledBack ==
  [][ \A r \in Reqs :
        (pc[r] = "deleteFolder_delete" /\ pc'[r] = "idle" /\ resp'.status = 500
           /\ req[r].id \in DOMAIN folders') =>
          \A n \in unlinked[r] \cap DOMAIN notes' : notes'[n].folderId = req[r].id
    ]_vars

NoteWriteOps ==
  {"updateNote", "moveNoteToTrash", "restoreNoteFromTrash", "moveNoteToFolder",
   "deleteNotePermanently"}

\* the note a response is about is owned by the caller of the request
OwnNote(R) == R.id \in DOMAIN notes /\ notes[R.id].userId = R.user

\* C11: a request on a note that another request deletes permanently in the
\* meantime is never answered with a server error: every request on a
\* permanently deleted note ends with success or 404.
C11_Atomic ==
  [][ (Answered /\ resp'.req.op \in NoteWriteOps /\ resp'.req.id \in removed') =>
        resp'.status # 500
    ]_vars

\* C12: moveNoteToFolder on a note of the caller, naming a non-null folder
\* id for which the caller owns no folder, answers 404 and changes no note.
C12_MoveToMissingFolder ==
  [][ (Answered /\ resp'.req.op = "moveNoteToFolder" /\ OwnNote(resp'.req)
         /\ TargetFolder(resp'.req) # NULL
         /\ FolderFindFirst(TargetFolder(resp'.req), resp'.req.user) = {}) =>
        resp'.status = 404 /\ notes' = notes
    ]_vars

\* C13: createNote without a title or with the title "" answers 400 and
\* stores nothing; updateNote with the title "" on a note of the caller
\* answers 400 and changes nothing; no stored note has the title "".
C13_NonEmptyTitle ==
  [][ /\ \A n \in DOMAIN notes' : notes'[n].title # ""
      /\ (Answered /\ resp'.req.op = "createNote" /\ resp'.req.user # NoUser
            /\ Get(resp'.req.body, "title", "") = "") =>
           resp'.status = 400 /\ notes' = notes
      /\ (Answered /\ resp'.req.op = "updateNote"
            /\ Get(resp'.req.body, "title", NULL) = "") =>
           /\ notes' = notes
           /\ OwnNote(resp'.req) => resp'.status = 400
    ]_vars

C13_Witness ==
  /\ resp.req.op = "updateNote"
  /\ Get(resp.req.body, "title", NULL) = ""
  /\ resp.status = 400
  /\ OwnNote(resp.req)
  /\ resp.before = {notes[resp.req.id]}

\* C14: updateNote with the body {} on a note of the caller answers 200,
\* gives the note a later updated_at, and leaves every other field of the
\* note and every other row as they were.
C14_EmptyUpdate ==
  [][ (Answered /\ resp'.req.op = "updateNote" /\ resp'.req.body = Empty
         /\ OwnNote(resp'.req)) =>
        LET id == resp'.req.id
        IN /\ resp'.status = 200
           /\ id \in DOMAIN notes'
           /\ notes'[id].updatedAt > notes[id].updatedAt
           /\ \A k \in KeptFields \cup {"isDeleted"} : notes'[id][k] = notes[id][k]
           /\ \A n \in DOMAIN notes \ {id} : n \in DOMAIN notes' /\ notes'[n] = notes[n]
           /\ folders' = folders
    ]_vars

C14_Witness ==
  /\ resp.req.op = "updateNote"
  /\ resp.req.body = Empty
  /\ resp.status = 200
  /\ \A row \in resp.before : row.isFavorite /\ row.isDeleted
  /\ notes[resp.req.id].isFavorite
  /\ notes[resp.req.id].isDeleted

\* C15: a successful updateNote, moveNoteToTrash, restoreNoteFromTrash or
\* moveNoteToFolder sets updated_at of its note to the time of the call,
\* later than that of every other note, so that the note is listed first.
C15_UpdatedAtRefreshed ==
  [][ /\ (Answered /\ resp'.status = 200
            /\ resp'.req.op \in NoteWriteOps \ {"deleteNotePermanently"}) =>
           LET id == resp'.req.id
           IN /\ now' > now
              /\ notes'[id].updatedAt = now'
              /\ \A n \in DOMAIN notes' \ {id} : notes'[n].updatedAt < notes'[id].updatedAt
      /\ (libCall'.op \in {"moveNoteToTrash", "restoreNoteFromTrash", "moveNoteToFolder"}
            /\ libCall'.arg["id"] \in DOMAIN libNotes') =>
           libNotes'[libCall'.arg["id"]].updated_at = libNow'
    ]_vars

C17_Identity ==
  [][ /\ \A r \in Reqs : Accepted(r) => req'[r].user # NoUser
      /\ (Answered /\ resp'.req.user = NoUser) =>
           resp'.status = 401 /\ notes' = notes /\ folders' = folders
      /\ \A n \in DOMAIN notes' :
           IF n \in DOMAIN notes
             THEN notes'[n].userId = notes[n].userId
             ELSE resp'.req.op = "createNote" /\ notes'[n].userId = resp'.req.user
      /\ \A f \in DOMAIN folders' :
           IF f \in DOMAIN folders
             THEN folders'[f].userId = folders[f].userId
             ELSE resp'.req.op = "createFolder" /\ folders'[f].userId = resp'.req.user
    ]_vars

C17_Witness ==
  /\ resp.req.op = "createNote"
  /\ resp.status = 201
  /\ "userId" \in DOMAIN resp.req.body
  /\ resp.req.body["userId"] # resp.req.user
  /\ \A n \in resp.result : notes[n].userId = resp.req.user

\* the body of a request fails the validation of its operation
InvalidBody(R) ==
  \/ R.op = "createNote" /\ ~createNoteSchemaOk(R.body)
  \/ R.op = "updateNote" /\ ~updateNoteSchemaOk(R.body)
  \/ R.op = "createFolder" /\ ~createFolderSchemaOk(R.body)
  \/ R.op = "updateFolder" /\ ~updateFolderSchemaOk(R.body)

\* C18: a mutating request of an authenticated caller whose body fails
\* validation is answered 400 whatever its target, and never gets as far as
\* a statement on the store.
C18_ValidateFirst ==
  [][ /\ \A r \in Reqs : Accepted(r) => ~InvalidBody(req'[r])
      /\ (Answered /\ resp'.req.user # NoUser /\ InvalidBody(resp'.req)) =>
           resp'.status = 400
    ]_vars

\* C19: the row a successful createNote stores is not in the trash, belongs
\* to the caller and is in the caller's list of active notes, whatever the
\* payload carries.
C19_CreatedActive ==
  [][ /\ (Answered /\ resp'.req.op = "createNote" /\ resp'.status = 201) =>
           \A n \in resp'.result :
             /\ n \in DOMAIN notes'
             /\ ~notes'[n].isDeleted
             /\ notes'[n].userId = resp'.req.user
      /\ \A n \in DOMAIN libNotes' \ DOMAIN libNotes : ~libNotes'[n].is_deleted
    ]_vars

\* C20: updateFolder on an id for which the caller owns no folder answers
\* 404 and changes nothing; otherwise name and color take the supplied
\* values, a field that is not supplied keeps its value, and the creation
\* time, the owner, the other folders and all notes are unchanged.
C20_UpdateFolderFrame ==
  [][ /\ (Answered /\ resp'.req.op = "updateFolder" /\ resp'.req.user # NoUser) =>
           LET id == resp'.req.id
               body == resp'.req.body
           IN IF FolderFindFirst(id, resp'.req.user) = {}
                THEN resp'.status = 404 /\ folders' = folders /\ notes' = notes
                ELSE /\ notes' = notes
                     /\ DOMAIN folders' = DOMAIN folders
                     /\ \A f \in DOMAIN folders \ {id} : folders'[f] = folders[f]
                     /\ folders'[id].userId = folders[id].userId
                     /\ folders'[id].createdAt = folders[id].createdAt
                     /\ \A k \in FolderSchemaKeys :
                          folders'[id][k] =
                            IF resp'.status = 200 /\ k \in DOMAIN body
                              THEN body[k] ELSE folders[id][k]
      /\ (libCall'.op = "updateFolder" /\ libCall'.arg["id"] \in DOMAIN libFolders) =>
           LET id == libCall'.arg["id"]
           IN /\ libNotes' = libNotes
              /\ \A k \in FolderSchemaKeys :
                   libFolders'[id][k] =
                     IF k \in DOMAIN libCall'.arg THEN libCall'.arg[k] ELSE libFolders[id][k]
    ]_vars

AuthAnswered == authResp = NoAuthResp /\ authResp' # NoAuthResp

\* C21: no two users have the same email, and a register call for an email
\* that a user already has fails and creates no user.
C21_UniqueEmail ==
  [][ /\ \A i, j \in DOMAIN users' : users'[i].email = users'[j].email => i = j
      /\ (/\ AuthAnswered
          /\ authResp'.req.op = "register"
          /\ UserFindUnique(authResp'.req.body.email) # {}) =>
            /\ authResp'.status \in {400, 500}
            /\ users' = users
    ]_vars

\* Two register calls for one email were in flight together: the second
\* create was refused after the first had inserted the row.
C21_Witness ==
  /\ jwtSecret
  /\ authResp.req.op = "register"
  /\ authResp.status = 500
  /\ \E i \in DOMAIN users : users[i].email = authResp.req.body.email

\* C30: requestPasswordReset given an email answers 200 with one and the same
\* message whether or not a user has that email, and changes no user.
C30_ResetSameAnswer ==
  [][ (/\ AuthAnswered
       /\ authResp'.req.op = "requestPasswordReset"
       /\ Truthy(authResp'.req.body.email)) =>
         /\ authResp' = AuthResponse(authResp'.req, 200, ResetSent, NoOne, NoToken)
         /\ users' = users
         /\ nextUser' = nextUser
    ]_vars

\* A reset was requested for an email that no user has while another user
\* exists.
C30_Witness ==
  /\ authResp.req.op = "requestPasswordReset"
  /\ authResp.status = 200
  /\ users # Empty
  /\ Truthy(authResp.req.body.email)
  /\ \A i \in DOMAIN users : users[i].email # authResp.req.body.email

Authenticated == user # NoOne \/ "auth_token" \in DOMAIN localStorage

\* C28: the client becomes authenticated only by a login or register call
\* that the service accepted; a call that the service rejects leaves an
\* unauthenticated client unauthenticated, with no token stored.
C28_AcceptedOnly ==
  [][ (/\ ~Authenticated
       /\ authCall'.op \in {"login", "register"}
       /\ authCall'.service # "accepted") => ~Authenticated'
    ]_vars

\* a call of src/lib/api.ts returned in this step
CallDone == cliCall' # cliCall /\ cliCall'.status # "pending"

MockIds == {mockNotes[i].id : i \in DOMAIN mockNotes}

MockRow(seq, id) == seq[IndexOf(seq, id)]

HomeRow(seq, id) == seq[IndexOf(seq, id)]

\* C22: while the service cannot be reached, every data operation of the
\* client falls back to the mock store and takes effect there: a created note
\* or folder is added, and an update, trash, restore, move or permanent
\* delete of a note of the mock store changes that note, so that the next
\* getNotes shows it.
C22_MockFallback ==
  [][ (~online /\ CallDone) =>
        LET c == cliCall'
            here == c.id \in MockIds
        IN /\ c.path = "mock"
           /\ c.op = "createNote" => Len(mockNotes') = Len(mockNotes) + 1
           /\ c.op = "createFolder" => Len(mockFolders') = Len(mockFolders) + 1
           /\ (c.op = "updateNote" /\ here) =>
                MockRow(mockNotes', c.id).title = HomeRow(homeNotes', c.id).title
           /\ (c.op = "moveNoteToTrash" /\ here) =>
                ~Falsy(MockRow(mockNotes', c.id).is_deleted)
           /\ (c.op = "restoreNoteFromTrash" /\ here) =>
                Falsy(MockRow(mockNotes', c.id).is_deleted)
           /\ (c.op = "deleteNotePermanently" /\ here) =>
                \A i \in DOMAIN mockNotes' : mockNotes'[i].id # c.id
           /\ (c.op = "moveNoteToFolder" /\ here) =>
                MockRow(mockNotes', c.id).folder_id = HomeRow(homeNotes', c.id).folderId
    ]_vars

\* C23: the mirror of Home is patched only after the operation succeeded: a
\* call that returns null or false leaves the notes and folders of the mirror
\* as they were.
C23_PatchAfterSuccess ==
  [][ (CallDone /\ cliCall'.status = "failed") =>
        homeNotes' = homeNotes /\ homeFolders' = homeFolders
    ]_vars

\* C25: when createNewNote was saved by the service, the entry it adds to the
\* mirror carries an id that exists in the store of the service.
C25_MirrorIdInStore ==
  [][ (CallDone /\ cliCall'.op = "createNote" /\ cliCall'.path = "api") =>
        Head(homeNotes').id \in DOMAIN notes'
    ]_vars

Kept(before, after) == after = before \/ (Falsy(before) /\ Falsy(after))

\* C26: saving a note from the editor leaves its folderId and isDeleted as
\* they were, in the mirror, in the mock store and on the service.
C26_SaveKeepsFolderAndTrash ==
  [][ (CallDone /\ cliCall'.op = "updateNote") =>
        LET id == cliCall'.id IN
        /\ Kept(HomeRow(homeNotes, id).folderId, HomeRow(homeNotes', id).folderId)
        /\ Kept(HomeRow(homeNotes, id).isDeleted, HomeRow(homeNotes', id).isDeleted)
        /\ id \in MockIds =>
             /\ Kept(MockRow(mockNotes, id).folder_id, MockRow(mockNotes', id).folder_id)
             /\ Kept(MockRow(mockNotes, id).is_deleted, MockRow(mockNotes', id).is_deleted)
        /\ \A n \in DOMAIN notes :
             /\ n \in DOMAIN notes'
             /\ notes'[n].folderId = notes[n].folderId
             /\ notes'[n].isDeleted = notes[n].isDeleted
    ]_vars

\* a result event was handled in this step
ResultEvent == voiceEvent' # voiceEvent

\* C24: two result events that dispatch a command are more than commandDelay
\* apart; a result event dispatches at most one command, the first of the
\* list with a matching phrase; a result that matches no phrase leaves
\* lastVoiceCommandTime as it was.
C24_Debounce ==
  [][ /\ \A i, j \in DOMAIN dispatchLog' :
           i < j => dispatchLog'[j] - dispatchLog'[i] > commandDelay
      /\ ResultEvent =>
           LET t == voiceEvent'.transcript
               matching == {i \in DOMAIN commands : CommandMatches(commands[i], t)}
           IN /\ Len(scheduled') <= Len(scheduled) + 1
              /\ Len(scheduled') = Len(scheduled) + 1 =>
                   /\ matching # {}
                   /\ \E i \in matching :
                        /\ \A j \in matching : i <= j
                        /\ scheduled'[Len(scheduled')] = commands[i].name
              /\ matching = {} =>
                   /\ lastVoiceCommandTime' = lastVoiceCommandTime
                   /\ scheduled' = scheduled
    ]_vars

\* A result that matches two commands came exactly commandDelay after a
\* dispatch and dispatched nothing.
C24_Witness ==
  /\ voiceEvent.command = NULL
  /\ Cardinality({i \in DOMAIN commands :
                    CommandMatches(commands[i], voiceEvent.transcript)}) = 2
  /\ dispatchLog # << >>
  /\ voiceEvent.at - dispatchLog[Len(dispatchLog)] = commandDelay

\* C27: once listening has been switched off, recognition.start() is not
\* called by the restart timer: the timer fires only while listening is on.
C27_NoRestartWhileOff ==
  [][ (restartTimer /\ ~restartTimer') => listening ]_vars

\* C29: in the recorder of VoiceRecorder and of NoteEditor, after any sequence
\* of startRecording, pauseRecording and stopRecording, a start that fails to
\* obtain the microphone included, isPaused implies isRecording, and every
\* run of stopRecording ends with isRecording = false and isPaused = false.
C29_PausedImpliesRecording ==
  [][/\ isPaused' => isRecording'
     /\ recCall'.op = "stopRecording" /\ recCall' # recCall
          => ~isRecording' /\ ~isPaused']_vars

\* stopRecording has ended a paused recording while a start was refused
\* earlier and the error is still shown
C29_Witness ==
  /\ recCall = RecCall("stopRecording", TRUE)
  /\ mediaRecorder = "inactive"
  /\ micError
  /\ ~isRecording /\ ~isPaused

TypeOK ==
  /\ DOMAIN notes \subseteq NoteIds
  /\ DOMAIN folders \subseteq FolderIds
  /\ \A n \in DOMAIN notes : notes[n].userId \in Users /\ notes[n].isDeleted \in BOOLEAN
  /\ resp.status \in {0, 200, 201, 400, 401, 404, 500}

====
